---- MODULE Spec2Model ----
(***************************************************************************)
(* Fluffy Core: the command channel (ipc/receiver.rs), the permission       *)
(* policy (permissions/policy.rs) and the execution engine (execute in      *)
(* ipc/receiver.rs, the target_os = "windows" bodies).                      *)
(*                                                                          *)
(* Strings the code inspects (process names, startup entry names) are       *)
(* sequences of one-character strings, so that ends_with, strip_suffix and  *)
(* to_lowercase are computed the way the code computes them.                *)
(***************************************************************************)
EXTENDS Integers, Sequences, FiniteSets, TLC

VARIABLES
    PENDING,        \* receiver.rs:14   HashMap<String, IpcCommand>, as a function id -> command
    KILL_HISTORY,   \* receiver.rs:36   Vec<Instant>, as a sequence of clock readings
    IS_UI_ACTIVE,   \* main.rs:23       AtomicBool
    nextId,         \* receiver.rs:60   number of identifiers Uuid::new_v4 has produced
    clock,          \* receiver.rs:96   the monotonic clock Instant::now() reads, in seconds
    alive,          \* receiver.rs:20   the intake thread has not panicked
    poisoned,       \* receiver.rs:42   locks whose guard was held by a panicking thread
    last,           \* what the handling of the last command line did
    executedFor,    \* receiver.rs:43   id -> number of execute calls made by Confirm{id}
    cancelSeen,     \* receiver.rs:48   ids removed from PENDING by a Cancel
    killTimes,      \* receiver.rs:125  the clock reading of every taskkill issued
    clients,        \* server.rs:12    Vec<TcpStream>, as a sequence of stream identities
    wire,           \* server.rs:40    stream -> the chunks written to it, in order
    bcast,          \* server.rs:35    what the last call of broadcast was given
    query,          \* a call of evaluate or check_path: its argument, what it reads, its result
    burst,          \* receiver.rs:86   the KillProcess executions made so far, in order
    handlers,       \* receiver.rs:39   thread -> where it stands in handle_command
    intake,         \* receiver.rs:20   the command connections and the intake thread's position
    disk,           \* filesystem.rs:2  the file system std::fs acts on
    threads         \* main.rs:367    thread -> the statement it is at and the locks it holds

\* the variables of the subscriber side and of the calls under study
serverVars == <<clients, wire, bcast>>
studyVars == <<query, burst, handlers, disk, threads>>

vars == <<PENDING, KILL_HISTORY, IS_UI_ACTIVE, nextId, clock, alive, poisoned,
          last, executedFor, cancelSeen, killTimes, serverVars, studyVars, intake>>

----------------------------------------------------------------------------
(* Bounds of the model *)

\* identifiers the model lets Uuid::new_v4 produce
MaxIds == 2
\* last reading of the clock, in seconds
MaxTime == 11
\* subscriber connections the model lets the accept thread take
MaxClients == 3
\* calls of broadcast the model follows
MaxBroadcasts == 2
\* KillProcess executions of one burst
MaxBurst == 5
(* Program constants *)

\* policy.rs:15  pid < 100
RESERVED_PID_LIMIT == 100
\* receiver.rs:99  Duration::from_secs(10)
RATE_WINDOW_SECS == 10
\* receiver.rs:101  history.len() >= 3
RATE_LIMIT_KILLS == 3

----------------------------------------------------------------------------
(* Strings *)

UpperCase == <<"A", "B", "C", "D", "E", "F", "G", "H", "I", "J", "K", "L", "M",
               "N", "O", "P", "Q", "R", "S", "T", "U", "V", "W", "X", "Y", "Z">>
LowerCase == <<"a", "b", "c", "d", "e", "f", "g", "h", "i", "j", "k", "l", "m",
               "n", "o", "p", "q", "r", "s", "t", "u", "v", "w", "x", "y", "z">>

\* char::to_lowercase on the ASCII range
lower_char(c) ==
    IF \E i \in 1..Len(UpperCase) : UpperCase[i] = c
    THEN LowerCase[CHOOSE i \in 1..Len(UpperCase) : UpperCase[i] = c]
    ELSE c

\* str::to_lowercase
to_lowercase(s) == [i \in 1..Len(s) |-> lower_char(s[i])]

\* str::ends_with
ends_with(s, suffix) ==
    /\ Len(s) >= Len(suffix)
    /\ SubSeq(s, Len(s) - Len(suffix) + 1, Len(s)) = suffix

\* Option<T>
None == [some |-> FALSE]
Some(v) == [some |-> TRUE, value |-> v]

\* str::strip_suffix
strip_suffix(s, suffix) ==
    IF ends_with(s, suffix) THEN Some(SubSeq(s, 1, Len(s) - Len(suffix))) ELSE None

\* str::replace("'", "''")
RECURSIVE replace_quote(_)
replace_quote(s) ==
    IF s = <<>> THEN <<>>
    ELSE (IF Head(s) = "'" THEN <<"'", "'">> ELSE <<Head(s)>>) \o replace_quote(Tail(s))

SUFFIX_HKCU == <<"(", "H", "K", "C", "U", ")">>
SUFFIX_HKLM == <<"(", "H", "K", "L", "M", ")">>
SUFFIX_FOLDER == <<"(", "F", "o", "l", "d", "e", "r", ")">>
SP == <<" ">>

\* receiver.rs:37
PROTECTED_PROCESSES ==
    { <<"c", "s", "r", "s", "s", ".", "e", "x", "e">>,
      <<"w", "i", "n", "i", "n", "i", "t", ".", "e", "x", "e">>,
      <<"l", "s", "a", "s", "s", ".", "e", "x", "e">>,
      <<"s", "e", "r", "v", "i", "c", "e", "s", ".", "e", "x", "e">>,
      <<"s", "m", "s", "s", ".", "e", "x", "e">>,
      <<"w", "i", "n", "l", "o", "g", "o", "n", ".", "e", "x", "e">> }

----------------------------------------------------------------------------
(* ipc/command.rs: the Command variants *)

KillProcess(pid) == [type |-> "KillProcess", pid |-> pid]
RequestCleanup == [type |-> "RequestCleanup"]
OpenPath(path) == [type |-> "OpenPath", path |-> path]
NormalizeSystem == [type |-> "NormalizeSystem"]
StartupAdd(name, path) == [type |-> "StartupAdd", name |-> name, path |-> path]
StartupRemove(name) == [type |-> "StartupRemove", name |-> name]
StartupToggle(name, enabled) == [type |-> "StartupToggle", name |-> name, enabled |-> enabled]
Confirm(command_id) == [type |-> "Confirm", command_id |-> command_id]
Cancel(command_id) == [type |-> "Cancel", command_id |-> command_id]
SetUiActive(active) == [type |-> "SetUiActive", active |-> active]

----------------------------------------------------------------------------
(* permissions/policy.rs *)

Allow == [decision |-> "Allow"]
RequireConfirmation(reason) == [decision |-> "RequireConfirmation", reason |-> reason]
Deny(reason) == [decision |-> "Deny", reason |-> reason]

\* faulty variant: the boundary of the reserved range off by one
is_reserved_pid_off_by_one(pid) == pid < RESERVED_PID_LIMIT - 1

\* faulty variant: the limit itself counts as reserved
is_reserved_pid_inclusive(pid) == pid <= RESERVED_PID_LIMIT

\* policy.rs:15  the reserved pid range
is_reserved_pid(pid) == pid < RESERVED_PID_LIMIT

\* policy.rs:4-51.  The set of decisions evaluate returns for cmd: one decision
\* for every variant the match has an arm for.  The match has no arm for
\* StartupToggle (command.rs:13): the source gives it no decision, and no arm
\* of handle_command's match on the decision is taken for it.
evaluate(cmd) ==
    CASE cmd.type \in {"Confirm", "Cancel"} ->
            { Deny("Confirmation commands are not executable actions") }
      [] cmd.type = "KillProcess" ->
            IF is_reserved_pid(cmd.pid)
            THEN { Deny("System process protection") }
            ELSE { RequireConfirmation("Killing a process may cause data loss") }
      [] cmd.type = "RequestCleanup" ->
            { RequireConfirmation("Cleanup may close background applications") }
      [] cmd.type = "OpenPath" -> { Allow }
      [] cmd.type = "NormalizeSystem" -> { Allow }
      [] cmd.type \in {"StartupAdd", "StartupRemove"} ->
            { RequireConfirmation("Modifying startup applications affects system boot") }
      [] cmd.type = "SetUiActive" -> { Allow }
      [] OTHER -> {}

----------------------------------------------------------------------------
(* ipc/receiver.rs: execute, the target_os = "windows" bodies *)

\* what the platform answers during one execution:
\*   process  sys.process(target_pid): None, or Some(name)          (receiver.rs:111)
\*   tool     Command::output(): "success" is Ok with a zero exit status,
\*            "failure" is Ok with a non-zero one, "spawn_error" is Err
\*   folder   the startup folders: "absent" (no folder holds the file),
\*            "removed", "remove_failed"                            (receiver.rs:235-249)
\*   steps    the Command::output() of each sub-operation of NormalizeSystem,
\*            in the order they run                                 (receiver.rs:342-376)
ToolOutcomes == {"success", "failure", "spawn_error"}
FolderOutcomes == {"absent", "removed", "remove_failed"}

ExecutionResult(command, status, error) ==
    [type |-> "execution_result", command |-> command, status |-> status, error |-> error]

Effect(tool, store, name) == [tool |-> tool, store |-> store, name |-> name]

\* the outcome of one call of execute
Outcome(panicked, sent, kills, effects, history) ==
    [panicked |-> panicked, sent |-> sent, kills |-> kills, effects |-> effects,
     history |-> history]

Panic(history) == Outcome(TRUE, <<>>, <<>>, <<>>, history)

\* faulty variant: the window never forgets a kill
retain_recent_keeps_all(history, now) == history

\* receiver.rs:99  history.retain(|&t| now.duration_since(t) < 10 s)
retain_recent(history, now) ==
    SelectSeq(history, LAMBDA t : now - t < RATE_WINDOW_SECS)

\* faulty variant: the admission check lets a fourth kill through
rate_limited_off_by_one(history) == Len(history) > RATE_LIMIT_KILLS

\* receiver.rs:101
rate_limited(history) == Len(history) >= RATE_LIMIT_KILLS

\* faulty variant: the name is compared without lowering its case
is_protected_case_sensitive(process) ==
    /\ process.some
    /\ process.value \in PROTECTED_PROCESSES

\* faulty variant: a process the table does not know counts as protected
is_protected_fail_closed(process) ==
    \/ ~process.some
    \/ to_lowercase(process.value) \in PROTECTED_PROCESSES

\* receiver.rs:111-117  the protected-process check on sys.process(target_pid)
is_protected(process) ==
    /\ process.some
    /\ to_lowercase(process.value) \in PROTECTED_PROCESSES

\* receiver.rs:129-140, 169-173, 201-209  status and error of a finished tool
tool_status(tool) == IF tool = "success" THEN "success" ELSE "error"
tool_error(tool) ==
    CASE tool = "success" -> "null"
      [] tool = "failure" -> "stderr"
      [] tool = "spawn_error" -> "io error"

\* faulty variant: the attempt is recorded before the guards are evaluated, so a
\* rejected execution is in the window too
execute_KillProcess_records_first(cmd, history, now, env) ==
    LET recent == retain_recent(history, now)
        result(status, error) ==
            [type |-> "execution_result", command |-> "KillProcess", pid |-> cmd.pid,
             status |-> status, error |-> error]
    IN  IF rate_limited(recent)
        THEN Outcome(FALSE, <<result("error", "Rate limit exceeded: >3 kills in 10s")>>,
                     <<>>, <<>>, recent)
        ELSE IF is_protected(env.process)
        THEN Outcome(FALSE, <<result("error", "Protected system process")>>,
                     <<>>, <<>>, Append(recent, now))
        ELSE Outcome(FALSE, <<result(tool_status(env.tool), tool_error(env.tool))>>,
                     <<cmd.pid>>, <<[tool |-> "taskkill", pid |-> cmd.pid]>>,
                     Append(recent, now))

\* receiver.rs:86-154
execute_KillProcess(cmd, history, now, env) ==
    LET recent == retain_recent(history, now)
        result(status, error) ==
            [type |-> "execution_result", command |-> "KillProcess", pid |-> cmd.pid,
             status |-> status, error |-> error]
    IN  IF rate_limited(recent)
        THEN Outcome(FALSE, <<result("error", "Rate limit exceeded: >3 kills in 10s")>>,
                     <<>>, <<>>, recent)
        ELSE IF is_protected(env.process)
        THEN Outcome(FALSE, <<result("error", "Protected system process")>>,
                     <<>>, <<>>, recent)
        ELSE Outcome(FALSE, <<result(tool_status(env.tool), tool_error(env.tool))>>,
                     <<cmd.pid>>, <<[tool |-> "taskkill", pid |-> cmd.pid]>>,
                     Append(recent, now))

\* receiver.rs:155-185
execute_StartupAdd(cmd, history, env) ==
    Outcome(FALSE,
            <<ExecutionResult("StartupAdd", tool_status(env.tool), tool_error(env.tool))>>,
            <<>>,
            <<Effect("New-ItemProperty", "HKCU Run", replace_quote(cmd.name))>>,
            history)

\* receiver.rs:195, 211, 227, 288, 290  name.strip_suffix(" (X)").unwrap()
real_name(name, suffix) == strip_suffix(name, SP \o suffix)

\* receiver.rs:187-269
execute_StartupRemove(cmd, history, env) ==
    LET name == cmd.name
        done(status, error, effects) ==
            Outcome(FALSE, <<ExecutionResult("StartupRemove", status, error)>>, <<>>,
                    effects, history)
    IN  IF ends_with(name, SUFFIX_HKCU)
        THEN LET real == real_name(name, SUFFIX_HKCU)
             IN  IF ~real.some THEN Panic(history)
                 ELSE done(tool_status(env.tool), tool_error(env.tool),
                           <<Effect("Remove-ItemProperty", "HKCU Run", replace_quote(real.value))>>)
        ELSE IF ends_with(name, SUFFIX_HKLM)
        THEN LET real == real_name(name, SUFFIX_HKLM)
             IN  IF ~real.some THEN Panic(history)
                 ELSE done(tool_status(env.tool),
                           CASE env.tool = "success" -> "null"
                             [] env.tool = "failure" -> "Failed to remove HKLM entry"
                             [] env.tool = "spawn_error" -> "io error",
                           <<Effect("Remove-ItemProperty", "HKLM Run", replace_quote(real.value))>>)
        ELSE IF ends_with(name, SUFFIX_FOLDER)
        THEN LET real == real_name(name, SUFFIX_FOLDER)
             IN  IF ~real.some THEN Panic(history)
                 ELSE CASE env.folder = "absent" ->
                              done("error", "Startup file not found.", <<>>)
                        [] env.folder = "removed" ->
                              done("success", "null",
                                   <<Effect("remove_file", "Startup folder", real.value)>>)
                        [] env.folder = "remove_failed" ->
                              done("error", "Failed to delete file",
                                   <<Effect("remove_file", "Startup folder", real.value)>>)
        ELSE done("success", "null",
                  <<Effect("Remove-ItemProperty", "HKCU Run", replace_quote(name))>>)

\* faulty variant: a name that does not end with a registry suffix is toggled
\* in the per-user store under its full name
execute_StartupToggle_falls_back(cmd, history, env) ==
    LET name == cmd.name
        registry == ends_with(name, SUFFIX_HKCU) \/ ends_with(name, SUFFIX_HKLM)
        approved_path == IF ends_with(name, SUFFIX_HKLM) /\ ~ends_with(name, SUFFIX_HKCU)
                         THEN "HKLM StartupApproved Run"
                         ELSE "HKCU StartupApproved Run"
        real == IF ends_with(name, SUFFIX_HKCU) THEN real_name(name, SUFFIX_HKCU)
                ELSE IF ends_with(name, SUFFIX_HKLM) THEN real_name(name, SUFFIX_HKLM)
                ELSE Some(name)
    IN  IF ~real.some THEN Panic(history)
        ELSE Outcome(FALSE,
                     <<ExecutionResult("StartupToggle", tool_status(env.tool),
                                       tool_error(env.tool))>>,
                     <<>>,
                     <<[tool |-> "Set-ItemProperty", store |-> approved_path,
                        name |-> replace_quote(real.value),
                        value |-> IF cmd.enabled THEN 2 ELSE 3]>>,
                     history)

\* receiver.rs:271-328
execute_StartupToggle(cmd, history, env) ==
    LET name == cmd.name
        done(status, error, effects) ==
            Outcome(FALSE, <<ExecutionResult("StartupToggle", status, error)>>, <<>>,
                    effects, history)
    IN  IF ends_with(name, SUFFIX_HKCU) \/ ends_with(name, SUFFIX_HKLM)
        THEN LET approved_path == IF ends_with(name, SUFFIX_HKCU)
                                  THEN "HKCU StartupApproved Run"
                                  ELSE "HKLM StartupApproved Run"
                 real == IF ends_with(name, SUFFIX_HKCU)
                         THEN real_name(name, SUFFIX_HKCU)
                         ELSE real_name(name, SUFFIX_HKLM)
                 hex_val == IF cmd.enabled THEN 2 ELSE 3
             IN  IF ~real.some THEN Panic(history)
                 ELSE done(tool_status(env.tool), tool_error(env.tool),
                           <<[tool |-> "Set-ItemProperty", store |-> approved_path,
                              name |-> replace_quote(real.value), value |-> hex_val]>>)
        ELSE done("error", "Only registry startup items can be toggled currently.", <<>>)

\* receiver.rs:342-376  the sub-operations of NormalizeSystem, in the order they run
NORMALIZE_STEPS ==
    <<[tool |-> "powershell", script |-> "av_script"],
      [tool |-> "powershell", script |-> "cleanup_script"],
      [tool |-> "ipconfig", script |-> "/flushdns"],
      [tool |-> "powershell", script |-> "opt_script"],
      [tool |-> "powershell", script |-> "browser_script"]>>

\* faulty variant: the batch returns at the first sub-operation that fails,
\* before the later ones and before the broadcast
execute_NormalizeSystem_stops(cmd, history, env) ==
    LET failed == {i \in DOMAIN env.steps : env.steps[i] # "success"}
        first == CHOOSE i \in failed : \A j \in failed : i <= j
    IN  IF failed = {}
        THEN Outcome(FALSE,
                     <<[type |-> "execution_result", command |-> "NormalizeSystem",
                        status |-> "success",
                        details |-> "System normalization and optimization pulse complete."]>>,
                     <<>>, NORMALIZE_STEPS, history)
        ELSE Outcome(FALSE, <<>>, <<>>, SubSeq(NORMALIZE_STEPS, 1, first), history)

\* receiver.rs:330-384  every sub-operation is run and its result discarded
\* (let _ = ...output()): env.steps is not read, status stays "success"
execute_NormalizeSystem(cmd, history, env) ==
    Outcome(FALSE,
            <<[type |-> "execution_result", command |-> "NormalizeSystem",
               status |-> "success",
               details |-> "System normalization and optimization pulse complete."]>>,
            <<>>,
            NORMALIZE_STEPS,
            history)

\* receiver.rs:84-413
execute(cmd, history, now, env) ==
    CASE cmd.type = "KillProcess" -> execute_KillProcess(cmd, history, now, env)
      [] cmd.type = "StartupAdd" -> execute_StartupAdd(cmd, history, env)
      [] cmd.type = "StartupRemove" -> execute_StartupRemove(cmd, history, env)
      [] cmd.type = "StartupToggle" -> execute_StartupToggle(cmd, history, env)
      [] cmd.type = "NormalizeSystem" -> execute_NormalizeSystem(cmd, history, env)
      [] OTHER -> Outcome(FALSE, <<>>, <<>>, <<>>, history)

----------------------------------------------------------------------------
(* The inputs of the model *)

\* pids of inbound KillProcess commands: both sides of the reserved range
Pids == {RESERVED_PID_LIMIT - 1, RESERVED_PID_LIMIT}

\* startup entry names: each store suffix with and without the space before it,
\* and a name with no suffix
EntryNames ==
    { <<"a">> \o SP \o SUFFIX_HKCU, <<"a">> \o SUFFIX_HKCU,
      <<"a">> \o SP \o SUFFIX_HKLM, <<"a">> \o SUFFIX_HKLM,
      <<"a">> \o SP \o SUFFIX_FOLDER, <<"a">> \o SUFFIX_FOLDER,
      <<"a">> }

\* process names the process table can hold for the target pid
ProcessNames ==
    { <<"l", "s", "a", "s", "s", ".", "e", "x", "e">>,
      <<"L", "S", "A", "S", "S", ".", "E", "X", "E">>,
      <<"n", "o", "t", "e", "p", "a", "d", ".", "e", "x", "e">> }

\* identifiers a Confirm or Cancel line can carry: 0 is never generated
IdUniverse == 0..MaxIds

CommandsOver(names) ==
    {KillProcess(pid) : pid \in Pids}
    \cup {RequestCleanup, OpenPath("/tmp/x"), NormalizeSystem}
    \cup {StartupAdd(<<"a">>, "C:/a.exe")}
    \cup {StartupRemove(n) : n \in names}
    \cup {StartupToggle(n, e) : n \in names, e \in BOOLEAN}

\* command.rs:5-21  the commands that are neither Confirm, Cancel nor SetUiActive
OtherCommands == CommandsOver(EntryNames)

\* what the sub-operations of one NormalizeSystem answer: all succeed, exactly
\* one of them fails (either way a tool can fail), or all of them fail
StepOutcomes ==
    LET n == Len(NORMALIZE_STEPS)
        failures == ToolOutcomes \ {"success"}
    IN  { [i \in 1..n |-> "success"] }
        \cup { [i \in 1..n |-> IF i = k THEN f ELSE "success"] : k \in 1..n, f \in failures }
        \cup { [i \in 1..n |-> f] : f \in failures }

NoEnv == [process |-> None, tool |-> "success", folder |-> "absent", steps |-> <<>>]

\* the platform answers that execute(cmd) reads
EnvFor(cmd) ==
    CASE cmd.type = "KillProcess" ->
            { [NoEnv EXCEPT !.process = p, !.tool = t] :
                  p \in {None} \cup {Some(n) : n \in ProcessNames}, t \in ToolOutcomes }
      [] cmd.type \in {"StartupAdd", "StartupToggle"} ->
            { [NoEnv EXCEPT !.tool = t] : t \in ToolOutcomes }
      [] cmd.type = "StartupRemove" ->
            IF ends_with(cmd.name, SUFFIX_FOLDER)
            THEN { [NoEnv EXCEPT !.folder = f] : f \in FolderOutcomes }
            ELSE { [NoEnv EXCEPT !.tool = t] : t \in ToolOutcomes }
      [] cmd.type = "NormalizeSystem" ->
            { [NoEnv EXCEPT !.steps = st] : st \in StepOutcomes }
      [] OTHER -> { NoEnv }

----------------------------------------------------------------------------
(* The state *)

NoLine == [type |-> "None"]

\* what one handling did: the line, the policy decision ("None" when evaluate
\* was not called), the commands passed to execute, the messages handed to
\* broadcast_global, the pids taskkill was issued for, the mutations issued,
\* the platform answers read, and whether the handler panicked
Handling(line, decision, executed, out, env) ==
    [line |-> line, decision |-> decision, executed |-> executed,
     sent |-> out.sent, kills |-> out.kills, effects |-> out.effects,
     env |-> env, panicked |-> out.panicked]

Nothing(history) == Outcome(FALSE, <<>>, <<>>, <<>>, history)

\* server.rs:35  no broadcast has been made
NoBroadcast == [n |-> 0, outcomes |-> << >>]

\* no call is under study
NoQuery == [fn |-> "None"]

\* receiver.rs:39  no thread is inside handle_command
NoHandlers == << >>

\* main.rs:367-368  no thread of the servers has been started
NoThreads == << >>

\* receiver.rs:21  no command connection has been made; the intake thread is
\* in listener.incoming() (serving 0)
NoIntake == [conns |-> << >>, backlog |-> << >>, serving |-> 0]

\* filesystem.rs:2  no file system is under study
NoDisk == [platform |-> "None", dirs |-> {}, files |-> {}, links |-> << >>,
           content |-> << >>, calls |-> 0]

Init ==
    /\ handlers = NoHandlers
    /\ threads = NoThreads
    /\ intake = NoIntake
    /\ disk = NoDisk
    /\ clients = << >>
    /\ wire = << >>
    /\ bcast = NoBroadcast
    /\ query = NoQuery
    /\ burst = << >>
    /\ PENDING = << >>
    /\ KILL_HISTORY = << >>
    /\ IS_UI_ACTIVE = FALSE
    /\ nextId = 0
    /\ clock = 0
    /\ alive = TRUE
    /\ poisoned = {}
    /\ last = Handling(NoLine, "None", <<>>, Nothing(<<>>), NoEnv)
    /\ executedFor = [id \in IdUniverse |-> 0]
    /\ cancelSeen = {}
    /\ killTimes = << >>

\* HashMap::remove
remove(map, key) == [k \in DOMAIN map \ {key} |-> map[k]]

\* HashMap::insert
insert(map, key, value) == [k \in DOMAIN map \cup {key} |-> IF k = key THEN value ELSE map[k]]

\* the effect of one call of execute on the engine's state
Executed(out) ==
    /\ KILL_HISTORY' = out.history
    /\ killTimes' = killTimes \o [i \in 1..Len(out.kills) |-> clock]

----------------------------------------------------------------------------
(* ipc/receiver.rs: handle_command, one action per arm *)

\* faulty variant: Confirm reads the entry (get) and leaves it in the registry
HandleConfirm_keeps_entry(command_id) ==
    /\ alive
    /\ command_id \in DOMAIN PENDING
    /\ \E env \in EnvFor(PENDING[command_id]) :
          LET original == PENDING[command_id]
              out == execute(original, KILL_HISTORY, clock, env)
          IN  /\ Executed(out)
              /\ executedFor' = [executedFor EXCEPT ![command_id] = @ + 1]
              /\ alive' = ~out.panicked
              /\ poisoned' = IF out.panicked THEN poisoned \cup {"PENDING"} ELSE poisoned
              /\ last' = Handling(Confirm(command_id), "None", <<original>>, out, env)
    /\ UNCHANGED <<PENDING, IS_UI_ACTIVE, nextId, clock, cancelSeen>>
    /\ UNCHANGED <<serverVars, studyVars>>

\* receiver.rs:41-45.  The guard of PENDING is a temporary of the if-let
\* scrutinee: it is held while execute runs, so a panic in execute poisons it.
HandleConfirm(command_id) ==
    /\ alive
    /\ IF command_id \in DOMAIN PENDING
       THEN \E env \in EnvFor(PENDING[command_id]) :
              LET original == PENDING[command_id]
                  out == execute(original, KILL_HISTORY, clock, env)
              IN  /\ PENDING' = remove(PENDING, command_id)
                  /\ Executed(out)
                  /\ executedFor' = [executedFor EXCEPT ![command_id] = @ + 1]
                  /\ alive' = ~out.panicked
                  /\ poisoned' = IF out.panicked THEN poisoned \cup {"PENDING"} ELSE poisoned
                  /\ last' = Handling(Confirm(command_id), "None", <<original>>, out, env)
       ELSE /\ last' = Handling(Confirm(command_id), "None", <<>>, Nothing(KILL_HISTORY), NoEnv)
            /\ UNCHANGED <<PENDING, KILL_HISTORY, killTimes, executedFor, alive, poisoned>>
    /\ UNCHANGED <<IS_UI_ACTIVE, nextId, clock, cancelSeen>>
    /\ UNCHANGED <<serverVars, studyVars>>

\* faulty variant: Cancel looks the entry up and leaves it in the registry
HandleCancel_keeps_entry(command_id) ==
    /\ alive
    /\ cancelSeen' = IF command_id \in DOMAIN PENDING
                     THEN cancelSeen \cup {command_id} ELSE cancelSeen
    /\ last' = Handling(Cancel(command_id), "None", <<>>, Nothing(KILL_HISTORY), NoEnv)
    /\ UNCHANGED <<PENDING, KILL_HISTORY, IS_UI_ACTIVE, nextId, clock, alive, poisoned,
                   executedFor, killTimes>>
    /\ UNCHANGED <<serverVars, studyVars>>

\* faulty variant: Cancel announces the cancellation, whether or not an entry
\* was registered under the id
HandleCancel_announces(command_id) ==
    /\ alive
    /\ PENDING' = remove(PENDING, command_id)
    /\ cancelSeen' = IF command_id \in DOMAIN PENDING
                     THEN cancelSeen \cup {command_id} ELSE cancelSeen
    /\ last' = Handling(Cancel(command_id), "None", <<>>,
                        Outcome(FALSE, <<[type |-> "cancelled", command_id |-> command_id]>>,
                                <<>>, <<>>, KILL_HISTORY),
                        NoEnv)
    /\ UNCHANGED <<KILL_HISTORY, IS_UI_ACTIVE, nextId, clock, alive, poisoned, executedFor, killTimes>>
    /\ UNCHANGED <<serverVars, studyVars>>

\* receiver.rs:47-49
HandleCancel(command_id) ==
    /\ alive
    /\ PENDING' = remove(PENDING, command_id)
    /\ cancelSeen' = IF command_id \in DOMAIN PENDING
                     THEN cancelSeen \cup {command_id} ELSE cancelSeen
    /\ last' = Handling(Cancel(command_id), "None", <<>>, Nothing(KILL_HISTORY), NoEnv)
    /\ UNCHANGED <<KILL_HISTORY, IS_UI_ACTIVE, nextId, clock, alive, poisoned, executedFor, killTimes>>
    /\ UNCHANGED <<serverVars, studyVars>>

\* receiver.rs:51-54
HandleSetUiActive(active) ==
    /\ alive
    /\ IS_UI_ACTIVE' = active
    /\ last' = Handling(SetUiActive(active), "None", <<>>, Nothing(KILL_HISTORY), NoEnv)
    /\ UNCHANGED <<PENDING, KILL_HISTORY, nextId, clock, alive, poisoned, executedFor, cancelSeen, killTimes>>
    /\ UNCHANGED <<serverVars, studyVars>>

\* receiver.rs:57
HandleAllow(other) ==
    /\ alive
    /\ Allow \in evaluate(other)
    /\ \E env \in EnvFor(other) :
          LET out == execute(other, KILL_HISTORY, clock, env)
          IN  /\ Executed(out)
              /\ alive' = ~out.panicked
              /\ last' = Handling(other, "Allow", <<other>>, out, env)
    /\ UNCHANGED <<PENDING, IS_UI_ACTIVE, nextId, poisoned, clock, executedFor,
                   cancelSeen>>
    /\ UNCHANGED <<serverVars, studyVars>>

\* faulty variant: the command is registered and executed at once
HandleRequireConfirmation_executes(other) ==
    /\ alive
    /\ nextId < MaxIds
    /\ \E d \in evaluate(other) : \E env \in EnvFor(other) :
          /\ d.decision = "RequireConfirmation"
          /\ LET id == nextId + 1
                 out == execute(other, KILL_HISTORY, clock, env)
             IN  /\ nextId' = id
                 /\ PENDING' = insert(PENDING, id, other)
                 /\ Executed(out)
                 /\ alive' = ~out.panicked
                 /\ last' = Handling(other, "RequireConfirmation", <<other>>, out, env)
    /\ UNCHANGED <<IS_UI_ACTIVE, clock, poisoned, executedFor, cancelSeen>>
    /\ UNCHANGED <<serverVars, studyVars>>

\* faulty variant: the identifier is the size of the registry plus one, so the
\* identifier of a resolved entry is generated again
HandleRequireConfirmation_reuses_id(other) ==
    /\ alive
    /\ nextId < MaxIds
    /\ \E d \in evaluate(other) :
          /\ d.decision = "RequireConfirmation"
          /\ LET id == Cardinality(DOMAIN PENDING) + 1
                 payload == [type |-> "confirm_required", command_id |-> id,
                             command_name |-> other, details |-> d.reason]
             IN  /\ nextId' = nextId + 1
                 /\ PENDING' = insert(PENDING, id, other)
                 /\ last' = Handling(other, "RequireConfirmation", <<>>,
                                     Outcome(FALSE, <<payload>>, <<>>, <<>>, KILL_HISTORY),
                                     NoEnv)
    /\ UNCHANGED <<KILL_HISTORY, IS_UI_ACTIVE, clock, alive, poisoned, executedFor,
                   cancelSeen, killTimes>>
    /\ UNCHANGED <<serverVars, studyVars>>

\* receiver.rs:59-75
HandleRequireConfirmation(other) ==
    /\ alive
    /\ nextId < MaxIds
    /\ \E d \in evaluate(other) :
          /\ d.decision = "RequireConfirmation"
          /\ LET id == nextId + 1
                 payload == [type |-> "confirm_required", command_id |-> id,
                             command_name |-> other, details |-> d.reason]
             IN  /\ nextId' = id
                 /\ PENDING' = insert(PENDING, id, other)
                 /\ last' = Handling(other, "RequireConfirmation", <<>>,
                                     Outcome(FALSE, <<payload>>, <<>>, <<>>, KILL_HISTORY),
                                     NoEnv)
    /\ UNCHANGED <<KILL_HISTORY, IS_UI_ACTIVE, clock, alive, poisoned, executedFor,
                   cancelSeen, killTimes>>
    /\ UNCHANGED <<serverVars, studyVars>>

\* faulty variant: a denied command is put in the registry, where a Confirm
\* can find it
HandleDeny_registers(other) ==
    /\ alive
    /\ nextId < MaxIds
    /\ \E d \in evaluate(other) : d.decision = "Deny"
    /\ nextId' = nextId + 1
    /\ PENDING' = insert(PENDING, nextId + 1, other)
    /\ last' = Handling(other, "Deny", <<>>, Nothing(KILL_HISTORY), NoEnv)
    /\ UNCHANGED <<KILL_HISTORY, IS_UI_ACTIVE, clock, alive, poisoned,
                   executedFor, cancelSeen, killTimes>>
    /\ UNCHANGED <<serverVars, studyVars>>

\* receiver.rs:77-79
HandleDeny(other) ==
    /\ alive
    /\ \E d \in evaluate(other) : d.decision = "Deny"
    /\ last' = Handling(other, "Deny", <<>>, Nothing(KILL_HISTORY), NoEnv)
    /\ UNCHANGED <<PENDING, KILL_HISTORY, IS_UI_ACTIVE, nextId, clock, alive, poisoned,
                   executedFor, cancelSeen, killTimes>>
    /\ UNCHANGED <<serverVars, studyVars>>

\* receiver.rs:39-82
handle_command(cmd) ==
    \/ cmd.type = "Confirm" /\ HandleConfirm(cmd.command_id)
    \/ cmd.type = "Cancel" /\ HandleCancel(cmd.command_id)
    \/ cmd.type = "SetUiActive" /\ HandleSetUiActive(cmd.active)
    \/ cmd.type \notin {"Confirm", "Cancel", "SetUiActive"} /\ HandleAllow(cmd)
    \/ cmd.type \notin {"Confirm", "Cancel", "SetUiActive"} /\ HandleRequireConfirmation(cmd)
    \/ cmd.type \notin {"Confirm", "Cancel", "SetUiActive"} /\ HandleDeny(cmd)

\* receiver.rs:24-30  the lines the intake thread reads
Lines ==
    OtherCommands
    \cup {Confirm(id) : id \in IdUniverse} \cup {Cancel(id) : id \in IdUniverse}
    \cup {SetUiActive(b) : b \in BOOLEAN}

\* faulty variant: the parse result is unwrapped, so a line that is no Command
\* ends the intake thread
ParseError_unwraps ==
    /\ alive
    /\ alive' = FALSE
    /\ last' = Handling([type |-> "Malformed"], "None", <<>>, Panic(KILL_HISTORY), NoEnv)
    /\ UNCHANGED <<PENDING, KILL_HISTORY, IS_UI_ACTIVE, nextId, clock, poisoned,
                   executedFor, cancelSeen, killTimes>>
    /\ UNCHANGED <<serverVars, studyVars>>

\* receiver.rs:28  a line that is no Command: logged, nothing else
ParseError ==
    /\ alive
    /\ last' = Handling([type |-> "Malformed"], "None", <<>>, Nothing(KILL_HISTORY), NoEnv)
    /\ UNCHANGED <<PENDING, KILL_HISTORY, IS_UI_ACTIVE, nextId, clock, alive, poisoned,
                   executedFor, cancelSeen, killTimes>>
    /\ UNCHANGED <<serverVars, studyVars>>

\* receiver.rs:24-30  the intake thread handles one line
Receive ==
    \/ \E cmd \in Lines : handle_command(cmd) /\ UNCHANGED intake
    \/ ParseError /\ UNCHANGED intake

Next == Receive

\* the command channel: any sequence of inbound lines
Spec == Init /\ [][Next]_vars

----------------------------------------------------------------------------
(* The execution engine under a running clock *)

\* the commands of the engine's stateful arm that reach execute: the
\* KillProcess commands the policy does not deny
EngineCommands ==
    { c \in OtherCommands :
          c.type = "KillProcess" /\ \E d \in evaluate(c) : d.decision # "Deny" }

\* receiver.rs:43, 57  the call execute(cmd) for an approved command
ExecuteApproved(cmd) ==
    /\ alive
    /\ \E env \in EnvFor(cmd) :
          LET out == execute(cmd, KILL_HISTORY, clock, env)
          IN  /\ Executed(out)
              /\ alive' = ~out.panicked
              /\ last' = Handling(NoLine, "None", <<cmd>>, out, env)
    /\ UNCHANGED <<PENDING, IS_UI_ACTIVE, nextId, poisoned, clock, executedFor, cancelSeen>>
    /\ UNCHANGED <<serverVars, studyVars>>
    /\ UNCHANGED intake

\* receiver.rs:96  time passes between two readings of Instant::now()
Tick ==
    /\ clock < MaxTime
    /\ clock' = clock + 1
    /\ UNCHANGED <<PENDING, KILL_HISTORY, IS_UI_ACTIVE, nextId, alive, poisoned, last,
                   executedFor, cancelSeen, killTimes>>
    /\ UNCHANGED <<serverVars, studyVars>>
    /\ UNCHANGED intake

NextEngine ==
    \/ \E cmd \in EngineCommands : ExecuteApproved(cmd)
    \/ Tick

SpecEngine == Init /\ [][NextEngine]_vars

----------------------------------------------------------------------------
(* A burst of KillProcess executions, each for another pid whose process is
   not protected *)

\* the platform answers for a live process that is not in PROTECTED_PROCESSES
UnprotectedEnv(cmd) ==
    { env \in EnvFor(cmd) : env.process.some /\ ~is_protected(env.process) }

\* receiver.rs:86-154  execute(KillProcess{pid}) for the next pid of the burst;
\* burst keeps, for each execution, its pid, the clock reading it took, whether
\* taskkill was issued and the error it reported
BurstKill ==
    /\ alive
    /\ Len(burst) < MaxBurst
    /\ LET cmd == KillProcess(RESERVED_PID_LIMIT + Len(burst))
       IN  \E env \in UnprotectedEnv(cmd) :
              LET out == execute(cmd, KILL_HISTORY, clock, env)
              IN  /\ Executed(out)
                  /\ alive' = ~out.panicked
                  /\ last' = Handling(NoLine, "None", <<cmd>>, out, env)
                  /\ burst' = Append(burst, [pid |-> cmd.pid, at |-> clock,
                                             killed |-> out.kills # << >>,
                                             rejected |-> out.sent[1].error =
                                                 "Rate limit exceeded: >3 kills in 10s"])
    /\ UNCHANGED <<PENDING, IS_UI_ACTIVE, nextId, poisoned, clock, executedFor, cancelSeen,
                   serverVars, query, handlers, disk, threads>>
    /\ UNCHANGED intake

\* time passes until the last execution of the burst has been made
NextBurst ==
    \/ BurstKill
    \/ Len(burst) < MaxBurst /\ Tick

SpecBurst == Init /\ [][NextBurst]_vars

----------------------------------------------------------------------------
(* ipc/server.rs: the subscriber list and broadcast *)

\* what the two write_all calls of server.rs:40 do on one stream: both succeed,
\* the first fails (the second is not made), or the second fails
WriteOutcomes == {"ok", "json_failed", "newline_failed"}

\* the chunks of the n-th message: its JSON text and the newline
Json(n) == [bytes |-> "json", of |-> n]
Newline(n) == [bytes |-> "newline", of |-> n]

\* server.rs:40  what reaches the stream under each outcome
written(n, outcome) ==
    CASE outcome = "ok" -> <<Json(n), Newline(n)>>
      [] outcome = "json_failed" -> << >>
      [] outcome = "newline_failed" -> <<Json(n)>>

\* the streams of a subscriber list
Streams(list) == { list[i] : i \in DOMAIN list }

\* the subscribers before the first one whose write fails
RECURSIVE until_failure(_, _)
until_failure(list, outcomes) ==
    IF list = << >> \/ outcomes[Head(list)] # "ok" THEN << >>
    ELSE <<Head(list)>> \o until_failure(Tail(list), outcomes)

\* faulty variant: the loop returns at the first failed write and removes nothing
broadcast_stops_at_failure(list, sent, n, outcomes) ==
    LET reached == Streams(until_failure(list, outcomes))
    IN  [clients |-> list,
         wire |-> [s \in DOMAIN sent |->
                     IF s \in reached THEN sent[s] \o written(n, "ok") ELSE sent[s]]]

\* server.rs:35-42  retain_mut visits every stream in order, writes to it and
\* keeps it exactly when both writes succeeded
broadcast(list, sent, n, outcomes) ==
    [clients |-> SelectSeq(list, LAMBDA s : outcomes[s] = "ok"),
     wire |-> [s \in DOMAIN sent |->
                 IF s \in Streams(list) THEN sent[s] \o written(n, outcomes[s])
                 ELSE sent[s]]]

\* server.rs:22-28  the accept thread pushes a new connection
Accept ==
    /\ Cardinality(DOMAIN wire) < MaxClients
    /\ LET stream == Cardinality(DOMAIN wire) + 1
       IN  /\ clients' = Append(clients, stream)
           /\ wire' = insert(wire, stream, << >>)
    /\ UNCHANGED <<PENDING, KILL_HISTORY, IS_UI_ACTIVE, nextId, clock, alive, poisoned,
                   last, executedFor, cancelSeen, killTimes, bcast, studyVars>>
    /\ UNCHANGED intake

\* server.rs:35-42  one call of broadcast, under the lock of the subscriber list
Broadcast(outcomes) ==
    /\ bcast.n < MaxBroadcasts
    /\ LET n == bcast.n + 1
           after == broadcast(clients, wire, n, outcomes)
       IN  /\ clients' = after.clients
           /\ wire' = after.wire
           /\ bcast' = [n |-> n, outcomes |-> outcomes]
    /\ UNCHANGED <<PENDING, KILL_HISTORY, IS_UI_ACTIVE, nextId, clock, alive, poisoned,
                   last, executedFor, cancelSeen, killTimes, studyVars>>
    /\ UNCHANGED intake

NextBroadcast ==
    \/ Accept
    \/ \E outcomes \in [Streams(clients) -> WriteOutcomes] : Broadcast(outcomes)

\* the subscriber side: connections arrive, messages are broadcast, writes fail
SpecBroadcast == Init /\ [][NextBroadcast]_vars

----------------------------------------------------------------------------
(* permissions/policy.rs: evaluate called on any command, in any state of the
   command channel *)

\* pids evaluate is asked about: 0, both sides of the reserved limit, and a
\* pid of the upper half of the u32 range (command.rs:5; 2^31 - 1 is the
\* largest integer the model checker represents)
PolicyPids ==
    {0, RESERVED_PID_LIMIT - 1, RESERVED_PID_LIMIT, RESERVED_PID_LIMIT + 1, 2147483647}

\* command.rs:4-21  commands of every variant
PolicyCommands == Lines \cup {KillProcess(pid) : pid \in PolicyPids}

\* the lines that bring the channel into the states evaluate is called in
ContextLines ==
    {SetUiActive(TRUE), KillProcess(RESERVED_PID_LIMIT - 1), KillProcess(RESERVED_PID_LIMIT),
     OpenPath("/tmp/x"), Confirm(1), Cancel(2)}

\* the channel handles a line before evaluate is called
Context ==
    /\ query = NoQuery
    /\ \E cmd \in ContextLines : handle_command(cmd)
    /\ UNCHANGED intake

\* policy.rs:4  evaluate is entered with cmd
CallEvaluate(cmd) ==
    /\ query = NoQuery
    /\ query' = [fn |-> "evaluate", arg |-> cmd, returned |-> FALSE, result |-> {}]
    /\ UNCHANGED <<PENDING, KILL_HISTORY, IS_UI_ACTIVE, nextId, clock, alive, poisoned,
                   last, executedFor, cancelSeen, killTimes, serverVars, burst, handlers, disk, threads>>
    /\ UNCHANGED intake

\* policy.rs:5-50  the match: the decisions of the arm taken
ReturnEvaluate ==
    /\ query.fn = "evaluate"
    /\ ~query.returned
    /\ query' = [query EXCEPT !.returned = TRUE, !.result = evaluate(query.arg)]
    /\ UNCHANGED <<PENDING, KILL_HISTORY, IS_UI_ACTIVE, nextId, clock, alive, poisoned,
                   last, executedFor, cancelSeen, killTimes, serverVars, burst, handlers, disk, threads>>
    /\ UNCHANGED intake

NextPolicy ==
    \/ Context
    \/ \E cmd \in PolicyCommands : CallEvaluate(cmd)
    \/ ReturnEvaluate

SpecPolicy == Init /\ [][NextPolicy]_vars

----------------------------------------------------------------------------
(* actions/safety.rs: SafetyValidator *)

\* A path is the sequence of its components and a component is a string, held
\* as the sequence of its characters.  The first component of an absolute path
\* is its root: "/", the disk C: with its root directory, or the same disk in
\* the extended-length syntax std::fs::canonicalize returns on Windows.
ROOT_DIR == <<"/">>
DISK_C == <<"C", ":">>
VERBATIM_C == <<"\\", "\\", "?", "\\", "C", ":">>
CUR_DIR == <<".">>
PARENT_DIR == <<".", ".">>
Roots == {ROOT_DIR, DISK_C, VERBATIM_C}

\* the component names of the model
N_bin == <<"b", "i", "n">>
N_sbin == <<"s", "b", "i", "n">>
N_usr == <<"u", "s", "r">>
N_etc == <<"e", "t", "c">>
N_boot == <<"b", "o", "o", "t">>
N_sys == <<"s", "y", "s">>
N_proc == <<"p", "r", "o", "c">>
N_lib == <<"l", "i", "b">>
N_lib64 == <<"l", "i", "b", "6", "4">>
N_Windows == <<"W", "i", "n", "d", "o", "w", "s">>
N_ProgramFiles == <<"P", "r", "o", "g", "r", "a", "m", " ", "F", "i", "l", "e", "s">>
N_ProgramFilesX86 == <<"P", "r", "o", "g", "r", "a", "m", " ", "F", "i", "l", "e", "s", " ", "(", "x", "8", "6", ")">>
N_ProgramData == <<"P", "r", "o", "g", "r", "a", "m", "D", "a", "t", "a">>
N_Documents == <<"D", "o", "c", "u", "m", "e", "n", "t", "s">>
N_Desktop == <<"D", "e", "s", "k", "t", "o", "p">>
N_Downloads == <<"D", "o", "w", "n", "l", "o", "a", "d", "s">>
N_Pictures == <<"P", "i", "c", "t", "u", "r", "e", "s">>
N_Videos == <<"V", "i", "d", "e", "o", "s">>
N_Music == <<"M", "u", "s", "i", "c">>
N_home == <<"h", "o", "m", "e">>
N_Users == <<"U", "s", "e", "r", "s">>
N_u == <<"u">>
N_tmp == <<"t", "m", "p">>
N_Temp == <<"T", "e", "m", "p">>
N_System32 == <<"S", "y", "s", "t", "e", "m", "3", "2">>
N_passwd == <<"p", "a", "s", "s", "w", "d">>
N_link == <<"l", "i", "n", "k">>
N_nodir == <<"n", "o", "d", "i", "r">>
N_report_txt == <<"r", "e", "p", "o", "r", "t", ".", "t", "x", "t">>
N_setup_EXE == <<"s", "e", "t", "u", "p", ".", "E", "X", "E">>
N_x_dll == <<"x", ".", "d", "l", "l">>
N_new_txt == <<"n", "e", "w", ".", "t", "x", "t">>
N_kernel32_dll == <<"k", "e", "r", "n", "e", "l", "3", "2", ".", "d", "l", "l">>
N_test_dll == <<"t", "e", "s", "t", ".", "d", "l", "l">>

\* safety.rs:21-25
SYSTEM_EXTENSIONS == { <<"s", "y", "s">>, <<"d", "l", "l">>, <<"e", "x", "e">> }

\* safety.rs:35-57  cfg!(windows) selects the list
get_protected_paths(platform) ==
    IF platform = "windows"
    THEN { <<DISK_C, N_Windows>>, <<DISK_C, N_ProgramFiles>>,
           <<DISK_C, N_ProgramFilesX86>>, <<DISK_C, N_ProgramData>> }
    ELSE { <<ROOT_DIR, N_bin>>, <<ROOT_DIR, N_sbin>>, <<ROOT_DIR, N_usr, N_bin>>,
           <<ROOT_DIR, N_usr, N_sbin>>, <<ROOT_DIR, N_etc>>, <<ROOT_DIR, N_boot>>,
           <<ROOT_DIR, N_sys>>, <<ROOT_DIR, N_proc>>, <<ROOT_DIR, N_lib>>,
           <<ROOT_DIR, N_lib64>> }

\* PathBuf::join
join(path, name) == Append(path, name)

\* safety.rs:60-82  home is dirs::home_dir(); PathBuf::from(".") when there is none
get_allowed_paths(platform, home) ==
    LET base == IF home.some THEN home.value ELSE <<CUR_DIR>>
    IN  { join(base, N_Documents), join(base, N_Desktop), join(base, N_Downloads),
          join(base, N_Pictures), join(base, N_Videos), join(base, N_Music) }

\* safety.rs:18-32  SafetyValidator::new
SafetyValidator(platform, home) ==
    [platform |-> platform,
     protected_paths |-> get_protected_paths(platform),
     allowed_paths |-> get_allowed_paths(platform, home),
     system_extensions |-> SYSTEM_EXTENSIONS]

\* Path::parent: None for the empty path and for a path that ends at its root
parent(path) ==
    IF path = << >> \/ (Len(path) = 1 /\ path[1] \in Roots) THEN None
    ELSE Some(SubSeq(path, 1, Len(path) - 1))

\* Path::starts_with: whole components are compared
starts_with(path, base) ==
    /\ Len(path) >= Len(base)
    /\ SubSeq(path, 1, Len(base)) = base

\* Path::file_name
file_name(path) ==
    IF path = << >> \/ path[Len(path)] \in Roots \cup {PARENT_DIR} THEN None
    ELSE Some(path[Len(path)])

\* Path::extension: what follows the last dot of the file name, when the name
\* has a dot that is not its first character
extension(path) ==
    LET name == file_name(path)
        dots == IF name.some THEN { i \in 1..Len(name.value) : name.value[i] = "." } ELSE {}
        last_dot == CHOOSE i \in dots : \A j \in dots : j <= i
    IN  IF dots = {} \/ last_dot = 1 THEN None
        ELSE Some(SubSeq(name.value, last_dot + 1, Len(name.value)))

\* The file system canonicalize reads: fs.dirs and fs.files are the existing
\* directories and files, fs.links maps a symbolic link to the directory or
\* file it points to; all are absolute paths without links, dots or the
\* extended-length prefix.  A relative path is resolved from the current
\* directory.
current_dir(platform) ==
    IF platform = "windows" THEN <<DISK_C, N_Temp>> ELSE <<ROOT_DIR, N_tmp>>

\* the directory that holds node (the root holds itself)
up(node) == IF Len(node) = 1 THEN node ELSE SubSeq(node, 1, Len(node) - 1)

\* the walk canonicalize makes from the directory or file node along the
\* components rest: None when a component does not exist or a file is entered
RECURSIVE walk(_, _, _)
walk(fs, node, rest) ==
    IF rest = << >> THEN Some(node)
    ELSE IF node \notin fs.dirs THEN None
    ELSE LET c == Head(rest)
             next == Append(node, c)
         IN  IF c = CUR_DIR THEN walk(fs, node, Tail(rest))
             ELSE IF c = PARENT_DIR THEN walk(fs, up(node), Tail(rest))
             ELSE IF next \in DOMAIN fs.links THEN walk(fs, fs.links[next], Tail(rest))
             ELSE IF next \in fs.dirs \cup fs.files THEN walk(fs, next, Tail(rest))
             ELSE None

\* the directory or file a path designates, if it exists
resolve(platform, fs, path) ==
    IF path = << >> THEN None
    ELSE IF path[1] \in Roots
    THEN walk(fs, <<IF path[1] = VERBATIM_C THEN DISK_C ELSE path[1]>>, Tail(path))
    ELSE walk(fs, current_dir(platform), path)

\* std::fs::canonicalize (Path::canonicalize): Err (None) when the path does
\* not exist; on Windows the result is in the extended-length syntax
canonicalize(platform, fs, path) ==
    LET node == resolve(platform, fs, path)
    IN  IF ~node.some THEN None
        ELSE IF platform = "windows" THEN Some(<<VERBATIM_C>> \o Tail(node.value))
        ELSE node

\* faulty variant: a path that does not exist is not looked up by its parent
canonical_target_no_fallback(platform, fs, path) ==
    canonicalize(platform, fs, path)

\* faulty variant: a path that cannot be resolved is classified as written
canonical_target_lexical(platform, fs, path) ==
    LET own == canonicalize(platform, fs, path)
        dir == parent(path)
        above == IF dir.some THEN canonicalize(platform, fs, dir.value) ELSE None
    IN  IF own.some THEN own ELSE IF above.some THEN above ELSE Some(path)

\* safety.rs:87-101  the canonical form of the path or, when the path cannot be
\* canonicalized, of its parent; None where the code returns Blocked
canonical_target(platform, fs, path) ==
    LET own == canonicalize(platform, fs, path)
        dir == parent(path)
    IN  IF own.some THEN own
        ELSE IF dir.some THEN canonicalize(platform, fs, dir.value)
        ELSE None

\* safety.rs:122-129  (is_protected of SafetyValidator)
is_protected_path(validator, path) ==
    \E protected \in validator.protected_paths : starts_with(path, protected)

\* safety.rs:132-139
is_allowed(validator, path) ==
    \E allowed \in validator.allowed_paths : starts_with(path, allowed)

\* safety.rs:142-149
is_system_file(validator, path) ==
    LET ext == extension(path)
    IN  ext.some /\ to_lowercase(ext.value) \in validator.system_extensions

\* safety.rs:85-119
check_path(validator, fs, path) ==
    LET canonical == canonical_target(validator.platform, fs, path)
    IN  IF ~canonical.some THEN "Blocked"
        ELSE IF is_protected_path(validator, canonical.value) THEN "Blocked"
        ELSE IF is_allowed(validator, canonical.value)
        THEN (IF is_system_file(validator, canonical.value)
              THEN "NeedsConfirmation" ELSE "Safe")
        ELSE "NeedsConfirmation"

\* safety.rs:152-154
is_system_critical(validator, fs, path) == check_path(validator, fs, path) = "Blocked"

(* The inputs of the validator *)

Platforms == {"windows", "unix"}

\* dirs::home_dir(): a user's home, the home of a system account (it lies under
\* a protected root), or none
Homes(platform) ==
    IF platform = "windows" THEN { Some(<<DISK_C, N_Users, N_u>>), None }
    ELSE { Some(<<ROOT_DIR, N_home, N_u>>), Some(<<ROOT_DIR, N_bin>>), None }

\* the two files of the user's Documents that may exist or not
UserFiles(platform) ==
    LET docs == IF platform = "windows" THEN <<DISK_C, N_Users, N_u, N_Documents>>
                ELSE <<ROOT_DIR, N_home, N_u, N_Documents>>
    IN  { join(docs, N_report_txt), join(docs, N_setup_EXE) }

FileSystems(platform) ==
    IF platform = "windows"
    THEN { [dirs |-> { <<DISK_C>>, <<DISK_C, N_Windows>>, <<DISK_C, N_Windows, N_System32>>,
                       <<DISK_C, N_Users>>, <<DISK_C, N_Users, N_u>>,
                       <<DISK_C, N_Users, N_u, N_Documents>>, <<DISK_C, N_Temp>> },
            files |-> { <<DISK_C, N_Windows, N_System32, N_kernel32_dll>>,
                        <<DISK_C, N_Temp, N_x_dll>> } \cup present,
            links |-> << >>] : present \in SUBSET UserFiles(platform) }
    ELSE { [dirs |-> { <<ROOT_DIR>>, <<ROOT_DIR, N_etc>>, <<ROOT_DIR, N_bin>>,
                       <<ROOT_DIR, N_bin, N_Documents>>, <<ROOT_DIR, N_home>>,
                       <<ROOT_DIR, N_home, N_u>>, <<ROOT_DIR, N_home, N_u, N_Documents>>,
                       <<ROOT_DIR, N_tmp>> },
            files |-> { <<ROOT_DIR, N_etc, N_passwd>>, <<ROOT_DIR, N_tmp, N_x_dll>>,
                        <<ROOT_DIR, N_bin, N_Documents, N_report_txt>> } \cup present,
            links |-> (<<ROOT_DIR, N_home, N_u, N_Documents, N_link>> :> <<ROOT_DIR, N_etc>>)]
           : present \in SUBSET UserFiles(platform) }

\* the paths check_path is asked about
Paths(platform) ==
    IF platform = "windows"
    THEN UserFiles(platform) \cup
         { <<DISK_C, N_Windows, N_System32, N_test_dll>>,
           <<DISK_C, N_Windows, N_System32, N_kernel32_dll>>,
           <<VERBATIM_C, N_Windows, N_System32, N_kernel32_dll>>,
           <<DISK_C, N_Users, N_u, N_Documents>>,
           <<DISK_C, N_Temp, N_x_dll>>, <<DISK_C, N_Temp, N_new_txt>>,
           <<DISK_C, N_nodir, N_new_txt>>, <<DISK_C>>, <<N_new_txt>>, << >> }
    ELSE UserFiles(platform) \cup
         { <<ROOT_DIR, N_etc, N_passwd>>, <<ROOT_DIR, N_etc, N_new_txt>>,
           <<ROOT_DIR, N_home, N_u, N_Documents, N_link>>,
           <<ROOT_DIR, N_home, N_u, N_Documents, N_link, N_passwd>>,
           <<ROOT_DIR, N_home, N_u, N_Documents, PARENT_DIR, PARENT_DIR, PARENT_DIR,
             N_etc, N_passwd>>,
           <<ROOT_DIR, N_home, N_u, N_Documents>>,
           <<ROOT_DIR, N_home, N_u, N_Documents, N_nodir, N_new_txt>>,
           <<ROOT_DIR, N_bin, N_Documents, N_report_txt>>,
           <<ROOT_DIR, N_tmp, N_x_dll>>, <<ROOT_DIR, N_tmp, N_new_txt>>,
           <<ROOT_DIR, N_nodir, N_new_txt>>, <<ROOT_DIR>>, <<N_new_txt>>, << >> }

\* safety.rs:85, 152  a validator is built and asked about path
CallCheckPath(platform, home, fs, path) ==
    /\ query = NoQuery
    /\ query' = [fn |-> "check_path", validator |-> SafetyValidator(platform, home),
                 home |-> home, fs |-> fs, arg |-> path, level |-> None, critical |-> None]
    /\ UNCHANGED <<PENDING, KILL_HISTORY, IS_UI_ACTIVE, nextId, clock, alive, poisoned,
                   last, executedFor, cancelSeen, killTimes, serverVars, burst, handlers, disk, threads>>
    /\ UNCHANGED intake

\* safety.rs:85-119  check_path returns
ReturnCheckPath ==
    /\ query.fn = "check_path"
    /\ ~query.level.some
    /\ query' = [query EXCEPT !.level = Some(check_path(query.validator, query.fs, query.arg))]
    /\ UNCHANGED <<PENDING, KILL_HISTORY, IS_UI_ACTIVE, nextId, clock, alive, poisoned,
                   last, executedFor, cancelSeen, killTimes, serverVars, burst, handlers, disk, threads>>
    /\ UNCHANGED intake

\* safety.rs:152-154  is_system_critical returns
ReturnIsSystemCritical ==
    /\ query.fn = "check_path"
    /\ ~query.critical.some
    /\ query' = [query EXCEPT
                   !.critical = Some(is_system_critical(query.validator, query.fs, query.arg))]
    /\ UNCHANGED <<PENDING, KILL_HISTORY, IS_UI_ACTIVE, nextId, clock, alive, poisoned,
                   last, executedFor, cancelSeen, killTimes, serverVars, burst, handlers, disk, threads>>
    /\ UNCHANGED intake

NextSafety ==
    \/ \E platform \in Platforms :
          \E home \in Homes(platform), fs \in FileSystems(platform), path \in Paths(platform) :
              CallCheckPath(platform, home, fs, path)
    \/ ReturnCheckPath
    \/ ReturnIsSystemCritical

SpecSafety == Init /\ [][NextSafety]_vars

----------------------------------------------------------------------------
(* The claims, checked under Spec unless stated otherwise *)

ConfirmRequired(id, cmd, sent) ==
    /\ Len(sent) = 1
    /\ sent[1].type = "confirm_required"
    /\ sent[1].command_id = id
    /\ sent[1].command_name = cmd

\* one handling, as a step: a command decided RequireConfirmation is not
\* executed, it is stored under a new identifier that the confirm_required
\* event carries; an entry of the registry is never replaced; and a command
\* the policy did not allow is executed only by a Confirm whose identifier is
\* that of its entry
C1_Step ==
    /\ last'.decision = "RequireConfirmation" =>
          /\ last'.executed = <<>>
          /\ \E id \in DOMAIN PENDING' \ DOMAIN PENDING :
                /\ PENDING' = insert(PENDING, id, last'.line)
                /\ ConfirmRequired(id, last'.line, last'.sent)
    /\ \A id \in DOMAIN PENDING \cap DOMAIN PENDING' : PENDING'[id] = PENDING[id]
    /\ DOMAIN PENDING' \ DOMAIN PENDING # {} => last'.decision = "RequireConfirmation"
    /\ (last'.executed # <<>> /\ last'.decision # "Allow") =>
          /\ last'.line.type = "Confirm"
          /\ last'.line.command_id \in DOMAIN PENDING
          /\ last'.executed = <<PENDING[last'.line.command_id]>>

\* C1: a command for which evaluate returns RequireConfirmation is not executed
\* when it arrives; it is executed only by a later Confirm that carries the
\* identifier generated when that command was registered.
C1_ExecutedOnlyAfterConfirm == [][C1_Step]_vars

\* a Confirm has executed the command registered under its identifier
C1_Witness ==
    /\ last.line.type = "Confirm"
    /\ last.executed # <<>>
    /\ last.executed[1].type = "KillProcess"
    /\ executedFor[last.line.command_id] = 1

IsReservedKill(cmd) == cmd.type = "KillProcess" /\ cmd.pid < 100

\* C2: a KillProcess with pid < 100 is never stored in the pending registry,
\* never reaches execute (no taskkill is issued for it) and produces no broadcast.
C2_ReservedPidNeverActedOn ==
    /\ \A id \in DOMAIN PENDING : ~IsReservedKill(PENDING[id])
    /\ \A i \in 1..Len(last.executed) : ~IsReservedKill(last.executed[i])
    /\ \A i \in 1..Len(last.kills) : last.kills[i] >= 100
    /\ IsReservedKill(last.line) =>
          /\ last.executed = <<>>
          /\ last.sent = <<>>
          /\ last.kills = <<>>
          /\ last.effects = <<>>

\* a KillProcess with pid 99 has been handled
C2_Witness ==
    /\ last.line = KillProcess(99)
    /\ last.decision = "Deny"

\* C3: a registered pending command is executed at most once: the first Confirm
\* carrying its id removes the entry and executes it; a later Confirm with the
\* same id, or a Confirm with an id never registered, executes nothing.
C3_ExecutedAtMostOnce ==
    /\ \A id \in IdUniverse :
          /\ executedFor[id] <= 1
          /\ executedFor[id] = 1 => id \notin DOMAIN PENDING
          /\ id \notin 1..nextId => executedFor[id] = 0
    /\ last.line.type = "Confirm" =>
          IF last.executed # <<>>
          THEN /\ Len(last.executed) = 1
               /\ last.line.command_id \in 1..nextId
               /\ executedFor[last.line.command_id] = 1
          ELSE last.sent = <<>> /\ last.kills = <<>> /\ last.effects = <<>>

\* a second Confirm with an id that was already confirmed has been handled
C3_Witness ==
    /\ last.line.type = "Confirm"
    /\ last.executed = <<>>
    /\ executedFor[last.line.command_id] = 1

\* C4: cancelled is terminal: a command removed by Cancel{id} is never executed
\* and nothing is broadcast for it, also when Confirm{id} arrives afterwards;
\* an executed command is not cancelled and not executed again.
C4_CancelledIsTerminal ==
    /\ \A id \in cancelSeen :
          /\ executedFor[id] = 0
          /\ id \notin DOMAIN PENDING
    /\ \A id \in IdUniverse :
          executedFor[id] >= 1 =>
              /\ executedFor[id] = 1
              /\ id \notin cancelSeen
              /\ id \notin DOMAIN PENDING
    /\ (last.line.type = "Confirm" /\ last.line.command_id \in cancelSeen) =>
          /\ last.executed = <<>>
          /\ last.sent = <<>>

\* Confirm{id} has been handled after Cancel{id} resolved the entry
C4_Witness ==
    /\ last.line.type = "Confirm"
    /\ last.line.command_id \in cancelSeen

----------------------------------------------------------------------------
(* The claims about the execution engine, checked under SpecEngine *)

KillExecuted ==
    /\ last.executed # <<>>
    /\ last.executed[1].type = "KillProcess"

RateLimitMessage == "Rate limit exceeded: >3 kills in 10s"

\* the taskkills issued during the 10 seconds that end at t
KillsIn(t) ==
    Cardinality({ i \in DOMAIN killTimes :
                      t - RATE_WINDOW_SECS < killTimes[i] /\ killTimes[i] <= t })

C5_Window == \A t \in 0..MaxTime : KillsIn(t) <= RATE_LIMIT_KILLS

C5_Rejected ==
    (KillExecuted /\ last.sent[1].error = RateLimitMessage) =>
        /\ last.sent[1].status = "error"
        /\ last.kills = <<>>

\* an execution that finds three kills in the window is rejected
C5_Admission ==
    (clock' = clock /\ last'.executed # <<>> /\ last'.executed[1].type = "KillProcess"
       /\ KillsIn(clock) >= RATE_LIMIT_KILLS) =>
        /\ Len(last'.sent) = 1
        /\ last'.sent[1].status = "error"
        /\ last'.sent[1].error = RateLimitMessage
        /\ last'.kills = <<>>
        /\ killTimes' = killTimes

\* C5: for every instant t at most 3 taskkills have been issued during the 10
\* seconds ending at t (a kill counts at the clock reading its execution took);
\* an execution that would exceed this reports error with the rate-limit
\* message and issues no kill.
C5_RateLimit == [](C5_Window /\ C5_Rejected) /\ [][C5_Admission]_vars

\* a fourth execution inside the window of three kills has been rejected
C5_Witness ==
    /\ KillExecuted
    /\ last.sent[1].error = RateLimitMessage
    /\ KillsIn(clock) = 3
    /\ Len(killTimes) > 3

\* the name is one of the denylist, whatever its case
NameIsProtected(name) ==
    \E p \in PROTECTED_PROCESSES : to_lowercase(name) = to_lowercase(p)

\* C6: executing KillProcess for a pid whose live process name, compared
\* case-insensitively, is in the protected denylist reports status error and
\* issues no taskkill, whatever the rate-limit window holds.
C6_ProtectedNeverKilled ==
    (KillExecuted /\ last.env.process.some /\ NameIsProtected(last.env.process.value)) =>
        /\ Len(last.sent) = 1
        /\ last.sent[1].status = "error"
        /\ last.kills = <<>>
        /\ last.effects = <<>>

\* an upper-case protected name has been rejected by the protected-process
\* check while the window held earlier kills
C6_Witness ==
    /\ KillExecuted
    /\ last.env.process.some
    /\ last.env.process.value # to_lowercase(last.env.process.value)
    /\ last.sent[1].error = "Protected system process"
    /\ KILL_HISTORY # <<>>

\* C7 as claimed: when the name of the target pid cannot be resolved, the
\* execution issues no taskkill and reports status error.
C7_FailsClosed ==
    (KillExecuted /\ ~last.env.process.some) =>
        /\ last.kills = <<>>
        /\ last.sent[1].status = "error"

\* C7 as amended: when the name of the target pid cannot be resolved the
\* protected-process check is skipped: the execution is either rejected by the
\* rate limit, or taskkill is issued for the pid and the status reported is
\* that of taskkill.
C7_UnknownProcessIsKilled ==
    (KillExecuted /\ ~last.env.process.some) =>
        /\ Len(last.sent) = 1
        /\ \/ /\ last.sent[1].error = RateLimitMessage
              /\ last.sent[1].status = "error"
              /\ last.kills = <<>>
           \/ /\ last.kills = <<last.executed[1].pid>>
              /\ last.sent[1].status = (IF last.env.tool = "success" THEN "success" ELSE "error")
              /\ last.sent[1].error # RateLimitMessage

\* taskkill has been issued, with success, for a pid the process table does not know
C7_Witness ==
    /\ KillExecuted
    /\ ~last.env.process.some
    /\ last.kills # <<>>
    /\ last.sent[1].status = "success"

----------------------------------------------------------------------------
(* Claims the code does not meet, checked under Spec *)

\* the commands execute has an arm for
HasHandler(cmd) ==
    cmd.type \in {"KillProcess", "StartupAdd", "StartupRemove", "StartupToggle",
                  "NormalizeSystem"}

ExecutionResultsSent ==
    Cardinality({ i \in DOMAIN last.sent : last.sent[i].type = "execution_result" })

\* C8: every execution of a command that has a handler broadcasts exactly one
\* execution_result; an execution of a command with no handler broadcasts none.
C8_OneResultPerExecution ==
    last.executed # <<>> =>
        ExecutionResultsSent = (IF HasHandler(last.executed[1]) THEN 1 ELSE 0)

\* C9: an inbound OpenPath is executed at once: no pending entry, no
\* confirm_required, and exactly one execution_result with status success.
C9_OpenPathReportsSuccess ==
    last.line.type = "OpenPath" =>
        /\ last.decision = "Allow"
        /\ last.executed = <<last.line>>
        /\ Len(last.sent) = 1
        /\ last.sent[1].type = "execution_result"
        /\ last.sent[1].status = "success"

\* C10: no execution panics: the intake thread keeps running and no lock is
\* poisoned, whatever name StartupRemove or StartupToggle is given.
C10_IntakeSurvives ==
    /\ alive
    /\ ~last.panicked
    /\ poisoned = {}

\* the sub-operations of the last execution that failed
FailedSteps == { i \in DOMAIN last.env.steps : last.env.steps[i] # "success" }

\* C19: NormalizeSystem reports status partial_failure whenever at least one of
\* its sub-operations failed, and status success only when every sub-operation
\* succeeded.
C19_NormalizeReportsPartialFailure ==
    (last.executed # << >> /\ last.executed[1].type = "NormalizeSystem") =>
        /\ Len(last.sent) = 1
        /\ last.sent[1].type = "execution_result"
        /\ last.sent[1].status = (IF FailedSteps = {} THEN "success" ELSE "partial_failure")

----------------------------------------------------------------------------
(* The claims about the subscriber list, checked under SpecBroadcast *)

\* one call of broadcast, as a step
C11_Step ==
    bcast'.n # bcast.n =>
        LET failed == { s \in Streams(clients) : bcast'.outcomes[s] # "ok" }
        IN  /\ Streams(clients) \ Streams(clients') = failed
            /\ clients' = SelectSeq(clients, LAMBDA s : s \notin failed)
            /\ \A s \in Streams(clients) \ failed :
                  wire'[s] = wire[s] \o <<Json(bcast'.n), Newline(bcast'.n)>>
            /\ \A s \in DOMAIN wire \ Streams(clients) : wire'[s] = wire[s]

\* C11: during a broadcast, a write failure on one subscriber removes exactly
\* that subscriber from the subscriber set; every other subscriber is still
\* written the message (its JSON and the newline) and stays in the set, in the
\* order it had.
C11_FailureRemovesOnlyThatSubscriber == [][C11_Step]_vars

\* a broadcast to three subscribers has failed on the second alone: the first
\* and the third hold the whole message and are still subscribed
C11_Witness ==
    /\ bcast.n >= 1
    /\ DOMAIN bcast.outcomes = {1, 2, 3}
    /\ bcast.outcomes[1] = "ok"
    /\ bcast.outcomes[2] # "ok"
    /\ bcast.outcomes[3] = "ok"
    /\ clients = <<1, 3>>
    /\ Len(wire[3]) = 2

----------------------------------------------------------------------------
(* The claims about the policy, checked under SpecPolicy *)

\* evaluate has returned for a command of one of the variants
Evaluated(types) ==
    /\ query.fn = "evaluate"
    /\ query.returned
    /\ query.arg.type \in types

\* the kinds of the decisions returned
Decisions == { d.decision : d \in query.result }

\* C12: evaluate(KillProcess{pid}) is Deny for every pid < 100 and
\* RequireConfirmation for every pid >= 100 (99 is denied, 100 requires
\* confirmation).
C12_KillProcessDecision ==
    Evaluated({"KillProcess"}) =>
        Decisions = (IF query.arg.pid < 100 THEN {"Deny"} ELSE {"RequireConfirmation"})

\* evaluate has returned for pid 100 while a command is pending
C12_Witness ==
    /\ Evaluated({"KillProcess"})
    /\ query.arg.pid = 100
    /\ Decisions = {"RequireConfirmation"}
    /\ PENDING # << >>

StartupCommands == {"StartupAdd", "StartupRemove", "StartupToggle"}

\* C13: evaluate returns RequireConfirmation for each of StartupAdd,
\* StartupRemove and StartupToggle, whatever their arguments, so a startup
\* command is executed only by a Confirm.
C13_StartupRequiresConfirmation ==
    /\ Evaluated(StartupCommands) => Decisions = {"RequireConfirmation"}
    /\ \A i \in DOMAIN last.executed :
          last.executed[i].type \in StartupCommands => last.line.type = "Confirm"

\* the decision the policy table gives each variant
PolicyTable(cmd) ==
    CASE cmd.type \in {"Confirm", "Cancel"} -> "Deny"
      [] cmd.type = "KillProcess" -> IF cmd.pid < 100 THEN "Deny" ELSE "RequireConfirmation"
      [] cmd.type \in {"RequestCleanup"} \cup StartupCommands -> "RequireConfirmation"
      [] cmd.type \in {"OpenPath", "NormalizeSystem", "SetUiActive"} -> "Allow"

\* C14: evaluate is total over the Command variants: it returns exactly one
\* decision for every command, the one of the policy table (Deny for Confirm
\* and Cancel whatever id they carry, RequireConfirmation for RequestCleanup,
\* Allow for OpenPath, NormalizeSystem and SetUiActive), in every state of the
\* pending registry, the rate-limit window and the UI flag.
C14_EvaluateTotalAndStateless ==
    (query.fn = "evaluate" /\ query.returned) =>
        /\ Cardinality(query.result) = 1
        /\ Decisions = {PolicyTable(query.arg)}

----------------------------------------------------------------------------
(* The claims about the safety validator, checked under SpecSafety *)

\* check_path has returned
Classified == query.fn = "check_path" /\ query.level.some

\* the directory or file the path designates, and the one its parent designates
Own == resolve(query.validator.platform, query.fs, query.arg)
Above ==
    LET dir == parent(query.arg)
    IN  IF dir.some THEN resolve(query.validator.platform, query.fs, dir.value) ELSE None

\* where the path lies: itself when it exists, else its parent directory
Place == IF Own.some THEN Own ELSE Above

\* the place lies in the tree of one of the roots
Under(place, roots) == \E root \in roots : starts_with(place.value, root)

InAllowedOnly ==
    /\ Place.some
    /\ Under(Place, query.validator.allowed_paths)
    /\ ~Under(Place, query.validator.protected_paths)

\* the extension of the path is sys, dll or exe in any case
HasSystemExtension ==
    LET ext == extension(query.arg)
    IN  ext.some /\ to_lowercase(ext.value) \in
                       { <<"s", "y", "s">>, <<"d", "l", "l">>, <<"e", "x", "e">> }

\* C15: check_path returns NeedsConfirmation, never Safe, for every path whose
\* extension is sys, dll or exe (in any case) and that lies under an allowed
\* root and under no protected root, also when the file does not exist yet
\* and its existing parent directory is allowed.
C15_SystemExtensionNeedsConfirmation ==
    (Classified /\ HasSystemExtension /\ InAllowedOnly) =>
        query.level.value = "NeedsConfirmation"

\* C16: check_path returns Blocked for every path whose canonical form is
\* under a protected root, also when it is under an allowed root as well; and
\* is_system_critical is true exactly when check_path is Blocked.
C16_ProtectedIsBlocked ==
    /\ (Classified /\ Place.some /\ Under(Place, query.validator.protected_paths)) =>
          query.level.value = "Blocked"
    /\ (Classified /\ query.critical.some) =>
          (query.critical.value <=> query.level.value = "Blocked")

\* C17: for a path that does not exist while its parent directory exists and
\* lies under an allowed root and under no protected root, check_path returns
\* Safe or NeedsConfirmation, never Blocked.
C17_NewFileInAllowedDirNotBlocked ==
    (Classified /\ ~Own.some /\ InAllowedOnly) =>
        query.level.value \in {"Safe", "NeedsConfirmation"}

\* a file that does not exist in the user's Documents has been classified Safe
C17_Witness ==
    /\ Classified
    /\ ~Own.some
    /\ InAllowedOnly
    /\ query.arg[Len(query.arg)] = N_report_txt
    /\ query.level.value = "Safe"

\* C18: check_path fails closed: when neither the path nor its parent
\* directory can be canonicalized, or the path has no parent, the result is
\* Blocked; and a path that lies outside the protected and the allowed roots
\* is NeedsConfirmation, never Safe.
C18_FailsClosed ==
    Classified =>
        /\ ~Place.some => query.level.value = "Blocked"
        /\ (/\ Place.some
            /\ ~Under(Place, query.validator.allowed_paths)
            /\ ~Under(Place, query.validator.protected_paths)) =>
               query.level.value = "NeedsConfirmation"

\* a path with a parent, neither of which exists, has been classified Blocked
C18_Witness ==
    /\ Classified
    /\ parent(query.arg).some
    /\ Len(query.arg) = 3
    /\ ~Place.some
    /\ query.level.value = "Blocked"

----------------------------------------------------------------------------
(* The claim about a burst of kills, checked under SpecBurst *)

\* executions i..j of the burst all fall inside 10 seconds
Within(i, j) == burst[j].at - burst[i].at < RATE_WINDOW_SECS

\* no kill was issued during the 10 seconds before execution i
QuietBefore(i) ==
    \A h \in 1..(i - 1) : burst[h].killed => burst[i].at - burst[h].at >= RATE_WINDOW_SECS

\* C20: with no other kills in the window, four KillProcess executions for
\* distinct non-protected pids inside 10 seconds are admitted, admitted,
\* admitted, and rejected with the rate-limit error; the rejected one does not
\* extend the window, so the next KillProcess executed once 10 seconds have
\* passed since the three admitted kills is admitted again.
C20_FourthRejectedThenAdmittedAgain ==
    /\ \A i, j \in DOMAIN burst : i # j => burst[i].pid # burst[j].pid
    /\ \A i \in DOMAIN burst :
          (i + 3 \in DOMAIN burst /\ QuietBefore(i) /\ Within(i, i + 3)) =>
              /\ \A k \in i..(i + 2) : burst[k].killed /\ ~burst[k].rejected
              /\ ~burst[i + 3].killed
              /\ burst[i + 3].rejected
              /\ (i + 4 \in DOMAIN burst
                    /\ burst[i + 4].at - burst[i + 2].at >= RATE_WINDOW_SECS) =>
                      burst[i + 4].killed /\ ~burst[i + 4].rejected

\* three kills and a rejection inside 10 seconds, then a fifth execution less
\* than 10 seconds after the rejection and 10 seconds after the third kill,
\* which is admitted
C20_Witness ==
    /\ Len(burst) = 5
    /\ Within(1, 4)
    /\ burst[3].killed
    /\ burst[4].rejected
    /\ burst[4].at > burst[3].at
    /\ burst[5].at - burst[3].at >= RATE_WINDOW_SECS
    /\ burst[5].at - burst[4].at < RATE_WINDOW_SECS
    /\ burst[5].killed


----------------------------------------------------------------------------
(* More claims about the command channel, checked under Spec *)

\* the line handled by this step is a Confirm or a Cancel whose id is not in
\* the pending registry
UnknownId ==
    /\ last'.line.type \in {"Confirm", "Cancel"}
    /\ last'.line.command_id \notin DOMAIN PENDING

C21_Step ==
    UnknownId =>
        /\ PENDING' = PENDING
        /\ KILL_HISTORY' = KILL_HISTORY
        /\ IS_UI_ACTIVE' = IS_UI_ACTIVE
        /\ clients' = clients
        /\ executedFor' = executedFor
        /\ last'.executed = <<>>
        /\ last'.sent = <<>>
        /\ last'.kills = <<>>
        /\ last'.effects = <<>>

\* C21: a Confirm or Cancel whose id is not in the pending registry (never
\* registered, or already confirmed or cancelled) is a no-op: the registry, the
\* rate-limit window, the UI-active flag and the subscriber set are unchanged
\* and nothing is executed or broadcast, however often it is repeated.
C21_UnknownIdIsNoOp == [][C21_Step]_vars

\* a Cancel has been handled for an id whose command a Confirm had executed,
\* while another entry was pending
C21_Witness ==
    /\ last.line.type = "Cancel"
    /\ executedFor[last.line.command_id] = 1
    /\ PENDING # << >>

\* the identifiers generated so far that are resolved
Resolved == {id \in IdUniverse : executedFor[id] >= 1} \cup cancelSeen

C22_Step ==
    /\ last'.decision = "RequireConfirmation" =>
          \E id \in DOMAIN PENDING' :
              /\ id \notin DOMAIN PENDING \cup Resolved \cup (1..nextId)
              /\ PENDING'[id] = last'.line
              /\ Len(last'.sent) = 1
              /\ last'.sent[1].type = "confirm_required"
              /\ last'.sent[1].command_id = id
              /\ last'.sent[1].command_name = PENDING'[id]
              /\ DOMAIN PENDING' = DOMAIN PENDING \cup {id}
    /\ \A id \in DOMAIN PENDING \cap DOMAIN PENDING' : PENDING'[id] = PENDING[id]
    /\ (last'.line.type = "Confirm" /\ last'.line.command_id \in DOMAIN PENDING) =>
          /\ last'.executed = <<PENDING[last'.line.command_id]>>
          /\ DOMAIN PENDING' = DOMAIN PENDING \ {last'.line.command_id}

\* C22: every registration uses an identifier different from every identifier
\* generated before, pending or resolved, so that no pending entry is
\* overwritten, and Confirm{id} executes exactly the command that was
\* registered under id and announced by the confirm_required event with id.
C22_FreshIdentifiers == [][C22_Step]_vars

\* a command has been registered after the entry of the first identifier was
\* resolved
C22_Witness ==
    /\ last.decision = "RequireConfirmation"
    /\ nextId = 2
    /\ 1 \in Resolved
    /\ 2 \in DOMAIN PENDING


----------------------------------------------------------------------------
(* ipc/receiver.rs: handle_command entered by several threads at once.  A
   step is what one thread does between two points where another thread can
   observe it: one statement under the PENDING lock, or one call.  A thread
   that waits for the lock has done nothing yet. *)

MaxHandlers == 3

Threads == 1..MaxHandlers

\* commands that evaluate sends to the registry: one that execute completes
\* and one on which execute panics
RaceCommands == {StartupAdd(<<"a">>, "C:/a.exe"), StartupRemove(<<"a">> \o SUFFIX_HKCU)}

\* a thread inside handle_command: the statement it is at, its argument, the
\* identifier it generated or was given, the entry it took out of the registry
\* and whether it holds the guard of PENDING
Handler(pc, line, id, taken, guard) ==
    [pc |-> pc, line |-> line, id |-> id, taken |-> taken, guard |-> guard]

\* a thread that panicked inside handle_command: it has unwound and holds nothing
Panicked == Handler("panicked", NoLine, 0, NoLine, FALSE)

\* receiver.rs:42, 48, 61  PENDING.lock() returns when no thread holds the guard
LockFree == \A t \in DOMAIN handlers : ~handlers[t].guard

\* receiver.rs:42, 48, 61  .unwrap() of a poisoned lock panics
PanicAtLock(t) ==
    /\ handlers' = insert(handlers, t, Panicked)
    /\ UNCHANGED <<PENDING, cancelSeen>>

RaceFrame ==
    /\ UNCHANGED <<IS_UI_ACTIVE, clock, alive, serverVars, query, burst, disk, intake, threads>>

\* faulty variant: Confirm clones the entry (get), drops the guard and leaves
\* the entry in the registry
ConfirmTake_peeks(t, command_id) ==
    /\ t \notin DOMAIN handlers
    /\ LockFree
    /\ IF "PENDING" \in poisoned
       THEN PanicAtLock(t)
       ELSE /\ handlers' =
                 IF command_id \in DOMAIN PENDING
                 THEN insert(handlers, t,
                             Handler("execute", Confirm(command_id), command_id,
                                     PENDING[command_id], FALSE))
                 ELSE handlers
            /\ UNCHANGED <<PENDING, cancelSeen>>
    /\ UNCHANGED <<KILL_HISTORY, nextId, poisoned, last, executedFor, killTimes>>
    /\ RaceFrame

\* receiver.rs:41-42  a thread enters with Confirm{command_id}:
\* PENDING.lock().unwrap().remove(&command_id).  The guard is a temporary of
\* the if-let scrutinee and is held until the if-let ends; with None the thread
\* returns
ConfirmTake(t, command_id) ==
    /\ t \notin DOMAIN handlers
    /\ LockFree
    /\ IF "PENDING" \in poisoned
       THEN PanicAtLock(t)
       ELSE /\ PENDING' = remove(PENDING, command_id)
            /\ handlers' =
                 IF command_id \in DOMAIN PENDING
                 THEN insert(handlers, t,
                             Handler("execute", Confirm(command_id), command_id,
                                     PENDING[command_id], TRUE))
                 ELSE handlers
            /\ UNCHANGED cancelSeen
    /\ UNCHANGED <<KILL_HISTORY, nextId, poisoned, last, executedFor, killTimes>>
    /\ RaceFrame

\* receiver.rs:43-45  execute(original), then the guard is dropped; a panic in
\* execute unwinds through the guard and poisons the lock
ConfirmExecute(t) ==
    /\ t \in DOMAIN handlers
    /\ handlers[t].pc = "execute"
    /\ \E env \in EnvFor(handlers[t].taken) :
          LET original == handlers[t].taken
              out == execute(original, KILL_HISTORY, clock, env)
          IN  /\ Executed(out)
              /\ executedFor' = [executedFor EXCEPT ![handlers[t].id] = @ + 1]
              /\ poisoned' = IF out.panicked /\ handlers[t].guard
                             THEN poisoned \cup {"PENDING"} ELSE poisoned
              /\ handlers' = IF out.panicked
                             THEN [handlers EXCEPT ![t] = Panicked]
                             ELSE remove(handlers, t)
              /\ last' = Handling(handlers[t].line, "None", <<original>>, out, env)
    /\ UNCHANGED <<PENDING, nextId, cancelSeen>>
    /\ RaceFrame

\* receiver.rs:47-48  a thread enters with Cancel{command_id}:
\* PENDING.lock().unwrap().remove(&command_id);
CancelRemove(t, command_id) ==
    /\ t \notin DOMAIN handlers
    /\ LockFree
    /\ IF "PENDING" \in poisoned
       THEN PanicAtLock(t)
       ELSE /\ PENDING' = remove(PENDING, command_id)
            /\ cancelSeen' = IF command_id \in DOMAIN PENDING
                             THEN cancelSeen \cup {command_id} ELSE cancelSeen
            /\ UNCHANGED handlers
    /\ UNCHANGED <<KILL_HISTORY, nextId, poisoned, last, executedFor, killTimes>>
    /\ RaceFrame

\* receiver.rs:55-60  a thread enters with another command: evaluate answers
\* RequireConfirmation; Uuid::new_v4()
NewId(t, other) ==
    /\ t \notin DOMAIN handlers
    /\ \E d \in evaluate(other) : d.decision = "RequireConfirmation"
    /\ nextId < MaxIds
    /\ nextId' = nextId + 1
    /\ handlers' = insert(handlers, t, Handler("insert", other, nextId + 1, NoLine, FALSE))
    /\ UNCHANGED <<PENDING, KILL_HISTORY, poisoned, last, executedFor, cancelSeen, killTimes>>
    /\ RaceFrame

\* receiver.rs:61  PENDING.lock().unwrap().insert(id.clone(), other.clone());
InsertPending(t) ==
    /\ t \in DOMAIN handlers
    /\ handlers[t].pc = "insert"
    /\ LockFree
    /\ IF "PENDING" \in poisoned
       THEN PanicAtLock(t)
       ELSE /\ PENDING' = insert(PENDING, handlers[t].id, handlers[t].line)
            /\ handlers' = [handlers EXCEPT ![t].pc = "announce"]
            /\ UNCHANGED cancelSeen
    /\ UNCHANGED <<KILL_HISTORY, nextId, poisoned, last, executedFor, killTimes>>
    /\ RaceFrame

\* receiver.rs:63-75  the confirm_required event is handed to broadcast_global
Announce(t) ==
    /\ t \in DOMAIN handlers
    /\ handlers[t].pc = "announce"
    /\ \E d \in evaluate(handlers[t].line) :
          /\ d.decision = "RequireConfirmation"
          /\ LET payload == [type |-> "confirm_required", command_id |-> handlers[t].id,
                             command_name |-> handlers[t].line, details |-> d.reason]
             IN  last' = Handling(handlers[t].line, "RequireConfirmation", <<>>,
                                  Outcome(FALSE, <<payload>>, <<>>, <<>>, KILL_HISTORY),
                                  NoEnv)
    /\ handlers' = remove(handlers, t)
    /\ UNCHANGED <<PENDING, KILL_HISTORY, nextId, poisoned, executedFor, cancelSeen, killTimes>>
    /\ RaceFrame

NextRace ==
    \E t \in Threads :
        \/ \E id \in 1..MaxIds : ConfirmTake(t, id)
        \/ ConfirmExecute(t)
        \/ \E id \in 1..MaxIds : CancelRemove(t, id)
        \/ \E other \in RaceCommands : NewId(t, other)
        \/ InsertPending(t)
        \/ Announce(t)

\* handle_command called from MaxHandlers threads, in every interleaving
SpecRace == Init /\ [][NextRace]_vars

----------------------------------------------------------------------------
(* The claim about concurrent handlers, checked under SpecRace *)

\* the threads that took the entry of id out of the registry and have not yet
\* returned from execute
Holders(id) ==
    {t \in DOMAIN handlers : handlers[t].pc = "execute" /\ handlers[t].id = id}

\* where the entry registered under id is
Status(id) ==
    CASE id \in DOMAIN PENDING -> "pending"
      [] Holders(id) # {} -> "taken"
      [] executedFor[id] >= 1 -> "executed"
      [] id \in cancelSeen -> "cancelled"
      [] OTHER -> "absent"

\* in how many places the entry registered under id is
Tally(id) ==
    (IF id \in DOMAIN PENDING THEN 1 ELSE 0) + Cardinality(Holders(id))
    + executedFor[id] + (IF id \in cancelSeen THEN 1 ELSE 0)

C23_Once == \A id \in IdUniverse : Tally(id) <= 1

C23_Step ==
    /\ \A id \in IdUniverse :
          \/ Status(id)' = Status(id)
          \/ <<Status(id), Status(id)'>> \in
                 { <<"absent", "pending">>, <<"pending", "taken">>,
                   <<"pending", "cancelled">>, <<"taken", "executed">> }
    /\ Cardinality({id \in IdUniverse : Status(id)' # Status(id)}) <= 1
    /\ \A id \in DOMAIN PENDING \cap DOMAIN PENDING' : PENDING'[id] = PENDING[id]
    /\ \A t \in DOMAIN handlers' :
          (handlers'[t].pc = "execute" /\ (t \in DOMAIN handlers => handlers[t].pc # "execute")) =>
              /\ handlers'[t].id \in DOMAIN PENDING
              /\ handlers'[t].taken = PENDING[handlers'[t].id]
    /\ \A t \in DOMAIN handlers :
          (handlers[t].pc = "execute"
             /\ (t \in DOMAIN handlers' => handlers'[t].pc # "execute")) =>
              last'.executed = <<handlers[t].taken>>

\* C23: under any interleaving of handlers that process Confirm{id}, Cancel{id}
\* and registrations concurrently, each pending entry is removed exactly once:
\* its command is executed exactly once (a Confirm won) or never (a Cancel
\* won), never both and never twice, and entries under other ids are unaffected.
C23_RemovedExactlyOnce == []C23_Once /\ [][C23_Step]_vars

\* a thread is inside execute for the entry of id 1, holding the guard, while
\* another thread that generated id 2 waits for the lock to insert its entry
C23_Witness ==
    \E t, u \in DOMAIN handlers :
        /\ handlers[t].pc = "execute"
        /\ handlers[t].id = 1
        /\ handlers[u].pc = "insert"
        /\ handlers[u].id = 2


----------------------------------------------------------------------------
(* ipc/receiver.rs: start_command_server.  One thread is spawned
   (receiver.rs:20); it takes the connections from listener.incoming() one
   after the other and reads each of them line by line until its end. *)

MaxConns == 2
MaxLines == 2

Malformed == [type |-> "Malformed"]

\* what a client writes as one line: text that is no Command, and one command
\* for each arm of handle_command
IntakeLines ==
    { Malformed, SetUiActive(TRUE), OpenPath("/tmp/x"), KillProcess(RESERVED_PID_LIMIT - 1),
      StartupAdd(<<"a">>, "C:/a.exe"), Confirm(1), Cancel(1) }

\* a command connection: the lines the client has written, how many of them
\* the intake thread has read, and whether the client still holds it open
Connection(sent, read, open) == [sent |-> sent, read |-> read, open |-> open]

Conns == DOMAIN intake.conns

Registers(line) ==
    /\ line.type \notin {"Malformed", "Confirm", "Cancel", "SetUiActive"}
    /\ \E d \in evaluate(line) : d.decision = "RequireConfirmation"

\* the lines written so far on all connections, as <<connection, position>>
LinesSent ==
    { p \in (1..MaxConns) \X (1..MaxLines) :
          p[1] \in Conns /\ p[2] <= Len(intake.conns[p[1]].sent) }

\* those of them that make the intake thread generate an identifier
RegistrationsSent == { p \in LinesSent : Registers(intake.conns[p[1]].sent[p[2]]) }

\* the lines of connection c that the intake thread has not read
Unread(c) == c \in Conns /\ intake.conns[c].read < Len(intake.conns[c].sent)

ChannelVars ==
    <<PENDING, KILL_HISTORY, IS_UI_ACTIVE, nextId, clock, alive, poisoned, last,
      executedFor, cancelSeen, killTimes>>

ClientFrame == UNCHANGED <<ChannelVars, serverVars, studyVars>>

\* a client connects to the command port: the connection waits in the
\* listener's queue
Connect ==
    /\ Len(intake.conns) < MaxConns
    /\ LET c == Len(intake.conns) + 1
       IN  intake' = [intake EXCEPT !.conns = Append(@, Connection(<< >>, 0, TRUE)),
                                    !.backlog = Append(@, c)]
    /\ ClientFrame

\* a client writes one line on its connection
Send(c, line) ==
    /\ c \in Conns
    /\ intake.conns[c].open
    /\ Cardinality(LinesSent) < MaxLines
    /\ Registers(line) => Cardinality(RegistrationsSent) < MaxIds
    /\ intake' = [intake EXCEPT !.conns[c].sent = Append(@, line)]
    /\ ClientFrame

\* a client closes its connection
Close(c) ==
    /\ c \in Conns
    /\ intake.conns[c].open
    /\ intake' = [intake EXCEPT !.conns[c].open = FALSE]
    /\ ClientFrame

\* receiver.rs:21-23  listener.incoming() yields the next connection
AcceptConn ==
    /\ alive
    /\ intake.serving = 0
    /\ intake.backlog # << >>
    /\ intake' = [intake EXCEPT !.serving = Head(intake.backlog), !.backlog = Tail(@)]
    /\ ClientFrame

\* faulty variant: the newest line of the connection is handled
ReadLine_newest(c) ==
    /\ intake.serving = c
    /\ Unread(c)
    /\ LET line == intake.conns[c].sent[Len(intake.conns[c].sent)]
       IN  IF line = Malformed THEN ParseError ELSE handle_command(line)
    /\ intake' = [intake EXCEPT !.conns[c].read = @ + 1]

\* receiver.rs:24-30  reader.lines() yields the next line of the connection
\* being served; it is parsed and handled before lines() is asked again
ReadLine(c) ==
    /\ intake.serving = c
    /\ Unread(c)
    /\ LET line == intake.conns[c].sent[intake.conns[c].read + 1]
       IN  IF line = Malformed THEN ParseError ELSE handle_command(line)
    /\ intake' = [intake EXCEPT !.conns[c].read = @ + 1]

\* receiver.rs:24  reader.lines() ends: every line is read and the client has
\* closed; the thread goes back to listener.incoming()
EndOfStream(c) ==
    /\ alive
    /\ intake.serving = c
    /\ ~Unread(c)
    /\ ~intake.conns[c].open
    /\ intake' = [intake EXCEPT !.serving = 0]
    /\ ClientFrame

\* receiver.rs:20-32  the steps of the spawned thread
IntakeThread ==
    \/ AcceptConn
    \/ \E c \in 1..MaxConns : ReadLine(c)
    \/ \E c \in 1..MaxConns : EndOfStream(c)

Clients ==
    \/ Connect
    \/ \E c \in 1..MaxConns, line \in IntakeLines : Send(c, line)
    \/ \E c \in 1..MaxConns : Close(c)

NextIntake == IntakeThread \/ Clients

\* clients connect, write and close as they like; the thread runs as it can
SpecIntake == Init /\ [][NextIntake]_vars

\* the spawned thread is scheduled: it is not suspended for ever while it has
\* a step to take.  Nothing is assumed of the clients.
SpecIntakeLive == SpecIntake /\ WF_vars(IntakeThread)


----------------------------------------------------------------------------
(* The claims about the intake of command lines, checked under SpecIntake and
   SpecIntakeLive *)

\* this step reads one more line of connection c
Reads(c) ==
    /\ c \in Conns
    /\ intake'.conns[c].read = intake.conns[c].read + 1

\* the line this step reads from connection c
NextLine(c) == intake.conns[c].sent[intake.conns[c].read + 1]

C24_Step ==
    \A c \in Conns :
        (Reads(c) /\ NextLine(c) = Malformed) =>
            /\ UNCHANGED <<PENDING, KILL_HISTORY, IS_UI_ACTIVE, nextId, alive, poisoned,
                           executedFor, cancelSeen, killTimes, clients, wire>>
            /\ last'.executed = <<>>
            /\ last'.sent = <<>>
            /\ last'.effects = <<>>
            /\ intake'.serving = c
            /\ intake'.backlog = intake.backlog
            /\ intake'.conns[c].open = intake.conns[c].open
            /\ intake'.conns[c].sent = intake.conns[c].sent
            /\ alive'

\* C24: a command line that is not a valid Command changes no state and causes
\* no broadcast, and the connection stays open: the intake thread goes on
\* reading the lines that follow it on the same connection.
C24_MalformedLineIsSkipped == [][C24_Step]_vars

\* on the connection being served, a SetUiActive line that followed a malformed
\* line has been handled
C24_Witness ==
    \E c \in Conns :
        /\ intake.serving = c
        /\ intake.conns[c].read = 2
        /\ intake.conns[c].sent[1] = Malformed
        /\ intake.conns[c].sent[2] = SetUiActive(TRUE)
        /\ last.line = SetUiActive(TRUE)
        /\ IS_UI_ACTIVE

\* C25: each accepted command connection is served by its own thread: a line
\* sent on one connection is eventually handled, also while an earlier
\* connection stays open and idle.
C25_EveryConnectionIsServed ==
    \A c \in 1..MaxConns : Unread(c) ~> ~Unread(c)

C26_Step ==
    /\ \A c \in Conns :
          \/ intake'.conns[c].read = intake.conns[c].read
          \/ /\ Reads(c)
             /\ intake.serving = c
             /\ intake.conns[c].read < Len(intake.conns[c].sent)
             /\ last'.line = NextLine(c)
             /\ \A d \in Conns \ {c} : intake'.conns[d].read = intake.conns[d].read
    /\ ChannelVars' # ChannelVars => \E c \in Conns : Reads(c)
    /\ \A c \in Conns : intake.conns[c].read <= Len(intake.conns[c].sent)

\* C26: within one command connection the lines are handled strictly in
\* arrival order: each handling step takes the oldest unread line of the
\* connection being served and is complete (decision, registration or
\* execution, broadcasts) before the next line is taken.
C26_HandledInArrivalOrder == [][C26_Step]_vars

\* a connection carried a registration and then the Confirm of its id: the
\* Confirm, handled second, has executed the registered command
C26_Witness ==
    \E c \in Conns :
        /\ intake.conns[c].read = 2
        /\ intake.conns[c].sent[1] = StartupAdd(<<"a">>, "C:/a.exe")
        /\ intake.conns[c].sent[2] = Confirm(1)
        /\ last.line = Confirm(1)
        /\ last.executed = <<StartupAdd(<<"a">>, "C:/a.exe")>>


----------------------------------------------------------------------------
(* ipc/receiver.rs: execute for the startup commands, called directly *)

\* entry names as the startup listing produces them and as a peer can write
\* them: every store suffix, names without one, an unknown suffix, and names
\* with a quote
StartupNames ==
    EntryNames
    \cup { <<"a", "'", "b">> \o SP \o SUFFIX_HKCU,
           <<"a", "'", "b">>,
           <<"b">>,
           <<"a">> \o SP \o <<"(", "X", ")">>,
           <<"b">> \o SP \o SUFFIX_FOLDER }

StartupExecutions ==
    {c \in CommandsOver(StartupNames) : c.type \in {"StartupAdd", "StartupRemove", "StartupToggle"}}

NextStartup == \E cmd \in StartupExecutions : ExecuteApproved(cmd)

\* execute called with one startup command after the other
SpecStartup == Init /\ [][NextStartup]_vars

----------------------------------------------------------------------------
(* The claims about the startup commands, checked under SpecStartup *)

\* the last call of execute was for a StartupRemove or StartupToggle and returned
StartupHandled(types) ==
    /\ last.executed # <<>>
    /\ last.executed[1].type \in types
    /\ ~last.panicked

HKCU_STORES == {"HKCU Run", "HKCU StartupApproved Run"}
HKLM_STORES == {"HKLM Run", "HKLM StartupApproved Run"}
FOLDER_STORES == {"Startup folder"}

StoresTouched == {last.effects[i].store : i \in DOMAIN last.effects}

\* C27: StartupRemove and StartupToggle select the store from the suffix of the
\* entry name, and a name with no recognised suffix is applied to the primary
\* per-user store (HKCU) by both commands.
C27_StoreSelectedBySuffix ==
    StartupHandled({"StartupRemove", "StartupToggle"}) =>
        LET name == last.executed[1].name
        IN  CASE ends_with(name, SUFFIX_HKCU) ->
                    StoresTouched # {} /\ StoresTouched \subseteq HKCU_STORES
              [] ends_with(name, SUFFIX_HKLM) ->
                    StoresTouched # {} /\ StoresTouched \subseteq HKLM_STORES
              [] ends_with(name, SUFFIX_FOLDER) ->
                    StoresTouched \subseteq FOLDER_STORES
              [] OTHER ->
                    /\ StoresTouched # {}
                    /\ StoresTouched \subseteq HKCU_STORES
                    /\ \A i \in DOMAIN last.effects :
                          last.effects[i].name = replace_quote(name)

\* C28: executing StartupToggle on a folder-backed entry (name with the Folder
\* suffix) reports status error and mutates no startup store, for either value
\* of enabled.
C28_FolderToggleIsRejected ==
    (/\ last.executed # <<>>
     /\ last.executed[1].type = "StartupToggle"
     /\ ends_with(last.executed[1].name, SUFFIX_FOLDER)) =>
        /\ ~last.panicked
        /\ Len(last.sent) = 1
        /\ last.sent[1].type = "execution_result"
        /\ last.sent[1].command = "StartupToggle"
        /\ last.sent[1].status = "error"
        /\ last.effects = <<>>

\* StartupToggle has been executed to disable a folder-backed entry while the
\* tool would have succeeded
C28_Witness ==
    /\ last.executed = <<StartupToggle(<<"a">> \o SP \o SUFFIX_FOLDER, FALSE)>>
    /\ last.env.tool = "success"
    /\ last.sent # <<>>


----------------------------------------------------------------------------
(* actions/filesystem.rs: FileSystemAction.  The file system is the record
   disk: the existing directories and files and the symbolic links as in the
   validator's model, the content of every file, and the number of actions
   executed on it. *)

MaxActions == 2

\* filesystem.rs:7-14
ActionType == {"CreateFile", "CreateFolder", "DeleteFile", "DeleteFolder", "MoveFile", "CopyFile"}

\* filesystem.rs:17-42  new, with_destination, with_content
FileSystemAction(action_type, target_path, destination_path, content) ==
    [action_type |-> action_type, target_path |-> target_path,
     destination_path |-> destination_path, content |-> content]

Ok(value) == [ok |-> TRUE, value |-> value]
Err(error) == [ok |-> FALSE, error |-> error]

\* "Operation blocked: {} is a protected system path"
OperationBlocked(path) == [message |-> "Operation blocked", path |-> path]

\* faulty variant: the destination is checked before the target
validate_destination_first(action, validator, fs) ==
    LET target_safety == check_path(validator, fs, action.target_path)
        dest == action.destination_path
    IN  IF dest.some /\ check_path(validator, fs, dest.value) = "Blocked"
        THEN Err(OperationBlocked(dest.value))
        ELSE IF target_safety = "Blocked"
        THEN Err(OperationBlocked(action.target_path))
        ELSE Ok(target_safety)

\* faulty variant: the stricter of the two levels is returned
validate_strictest(action, validator, fs) ==
    LET target_safety == check_path(validator, fs, action.target_path)
        dest == action.destination_path
    IN  IF target_safety = "Blocked"
        THEN Err(OperationBlocked(action.target_path))
        ELSE IF dest.some /\ check_path(validator, fs, dest.value) = "Blocked"
        THEN Err(OperationBlocked(dest.value))
        ELSE IF dest.some /\ check_path(validator, fs, dest.value) = "NeedsConfirmation"
        THEN Ok("NeedsConfirmation")
        ELSE Ok(target_safety)

\* filesystem.rs:45-68
validate(action, validator, fs) ==
    LET target_safety == check_path(validator, fs, action.target_path)
        dest == action.destination_path
    IN  IF target_safety = "Blocked"
        THEN Err(OperationBlocked(action.target_path))
        ELSE IF dest.some /\ check_path(validator, fs, dest.value) = "Blocked"
        THEN Err(OperationBlocked(dest.value))
        ELSE Ok(target_safety)

(* std::fs and std::path, as the actions use them *)

\* the directory or file a path leads to, following links
node_of(fs, path) == resolve(fs.platform, fs, path)

\* Path::exists
exists(fs, path) ==
    LET node == node_of(fs, path) IN node.some /\ node.value \in fs.dirs \cup fs.files

\* Path::is_file
is_file(fs, path) ==
    LET node == node_of(fs, path) IN node.some /\ node.value \in fs.files

\* Path::is_dir
is_dir(fs, path) ==
    LET node == node_of(fs, path) IN node.some /\ node.value \in fs.dirs

\* the entry a path names when its last component is not followed (what
\* unlink, mkdir and rename act on): its directory must exist
entry_of(fs, path) ==
    IF path = << >> THEN None
    ELSE LET name == path[Len(path)]
             dir == IF Len(path) = 1 THEN Some(current_dir(fs.platform))
                    ELSE node_of(fs, SubSeq(path, 1, Len(path) - 1))
         IN  IF name \in Roots \cup {CUR_DIR, PARENT_DIR} THEN node_of(fs, path)
             ELSE IF dir.some /\ dir.value \in fs.dirs THEN Some(Append(dir.value, name))
             ELSE None

\* what a call of std::fs returns: io::Result<()> and the file system it leaves
Done(fs) == [ok |-> TRUE, fs |-> fs]
Failed(fs) == [ok |-> FALSE, fs |-> fs]

\* std::fs::create_dir_all: the directory and its missing ancestors; Ok for the
\* empty path and for an existing directory
RECURSIVE create_dir_all(_, _)
create_dir_all(fs, path) ==
    IF path = << >> \/ is_dir(fs, path) THEN Done(fs)
    ELSE IF exists(fs, path) THEN Failed(fs)
    ELSE LET dir == parent(path)
         IN  IF ~dir.some THEN Failed(fs)
             ELSE LET above == create_dir_all(fs, dir.value)
                      entry == entry_of(above.fs, path)
                  IN  IF ~above.ok THEN above
                      ELSE IF ~entry.some \/ entry.value \in DOMAIN fs.links
                      THEN Failed(above.fs)
                      ELSE Done([above.fs EXCEPT !.dirs = @ \cup {entry.value}])

\* std::fs::write: creates the file or replaces the content of the existing one
write(fs, path, content) ==
    LET node == node_of(fs, path)
        entry == entry_of(fs, path)
    IN  IF exists(fs, path)
        THEN IF node.value \in fs.dirs THEN Failed(fs)
             ELSE Done([fs EXCEPT !.content = (node.value :> content) @@ @])
        ELSE IF entry.some /\ entry.value \notin DOMAIN fs.links
        THEN Done([fs EXCEPT !.files = @ \cup {entry.value},
                             !.content = (entry.value :> content) @@ @])
        ELSE Failed(fs)

\* a map without the keys in gone
without(map, gone) == [k \in DOMAIN map \ gone |-> map[k]]

\* std::fs::remove_file: unlinks a file, or the link itself when the path names one
remove_file(fs, path) ==
    LET entry == entry_of(fs, path)
    IN  IF ~entry.some THEN Failed(fs)
        ELSE IF entry.value \in DOMAIN fs.links
        THEN Done([fs EXCEPT !.links = without(@, {entry.value})])
        ELSE IF entry.value \in fs.files
        THEN Done([fs EXCEPT !.files = @ \ {entry.value},
                             !.content = without(@, {entry.value})])
        ELSE Failed(fs)

\* the entries at or below node
Below(fs, node) ==
    {n \in fs.dirs \cup fs.files \cup DOMAIN fs.links : starts_with(n, node)}

\* std::fs::remove_dir_all: removes the directory and everything below it; a
\* symbolic link is removed, not followed
remove_dir_all(fs, path) ==
    LET entry == entry_of(fs, path)
        gone == Below(fs, entry.value)
    IN  IF ~entry.some THEN Failed(fs)
        ELSE IF entry.value \in DOMAIN fs.links
        THEN Done([fs EXCEPT !.links = without(@, {entry.value})])
        ELSE IF entry.value \in fs.dirs /\ Len(entry.value) > 1
        THEN Done([fs EXCEPT !.dirs = @ \ gone, !.files = @ \ gone,
                             !.content = without(@, gone), !.links = without(@, gone)])
        ELSE Failed(fs)

\* node, moved with the subtree at from to the place to
moved(node, from, to) ==
    IF starts_with(node, from) THEN to \o SubSeq(node, Len(from) + 1, Len(node)) ELSE node

\* std::fs::rename: the entry is moved; a file replaces an existing file or
\* link, a directory replaces only an empty directory (and none on Windows)
rename(fs, from, to) ==
    LET source == entry_of(fs, from)
        target == entry_of(fs, to)
        s == source.value
        t == target.value
        clear == IF t \in fs.dirs THEN fs
                 ELSE [fs EXCEPT !.files = @ \ {t}, !.content = without(@, {t}),
                                 !.links = without(@, {t})]
        carried == Below(fs, s)
        result ==
            [clear EXCEPT
               !.dirs = {moved(n, s, t) : n \in @},
               !.files = {moved(n, s, t) : n \in @},
               !.content = [n \in {moved(k, s, t) : k \in DOMAIN @} |->
                               @[CHOOSE k \in DOMAIN @ : moved(k, s, t) = n]],
               !.links = [n \in {moved(k, s, t) : k \in DOMAIN @} |->
                             @[CHOOSE k \in DOMAIN @ : moved(k, s, t) = n]]]
    IN  IF ~source.some \/ ~target.some THEN Failed(fs)
        ELSE IF s \notin fs.dirs \cup fs.files \cup DOMAIN fs.links THEN Failed(fs)
        ELSE IF s = t THEN Done(fs)
        ELSE IF s \in fs.dirs
        THEN IF \/ starts_with(t, s)
                \/ starts_with(s, t)
                \/ t \in fs.files \cup DOMAIN fs.links
                \/ t \in fs.dirs /\ (fs.platform = "windows" \/ Below(fs, t) # {t})
             THEN Failed(fs)
             ELSE Done(result)
        ELSE IF t \in fs.dirs THEN Failed(fs)
        ELSE Done(result)

\* std::fs::copy: the content of the file at from is written to to
copy(fs, from, to) ==
    LET source == node_of(fs, from)
    IN  IF ~is_file(fs, from) THEN Failed(fs)
        ELSE write(fs, to, fs.content[source.value])

\* the calls of std::fs that can fail for a reason outside the model
\* (permissions, a full or read-only volume); "none": no such failure
Faults == {"none", "create_dir_all", "write", "remove_file", "remove_dir_all", "rename", "copy"}

\* a call of std::fs under the fault: the io error leaves the file system as it was
call(fault, name, fs, result) == IF fault = name THEN Failed(fs) ELSE result

\* what an operation returns: Result<String, String> and the file system it leaves
Returned(ok, message, fs) == [ok |-> ok, message |-> message, fs |-> fs]

\* filesystem.rs:82-95
create_file(action, fs, fault) ==
    LET dir == parent(action.target_path)
        made == IF dir.some
                THEN call(fault, "create_dir_all", fs, create_dir_all(fs, dir.value))
                ELSE Done(fs)
        content == IF action.content.some THEN action.content.value ELSE ""
        saved == call(fault, "write", made.fs, write(made.fs, action.target_path, content))
    IN  IF ~made.ok THEN Returned(FALSE, "Failed to create parent directory", made.fs)
        ELSE IF ~saved.ok THEN Returned(FALSE, "Failed to create file", saved.fs)
        ELSE Returned(TRUE, "Created file", saved.fs)

\* filesystem.rs:97-102
create_folder(action, fs, fault) ==
    LET made == call(fault, "create_dir_all", fs, create_dir_all(fs, action.target_path))
    IN  IF ~made.ok THEN Returned(FALSE, "Failed to create folder", made.fs)
        ELSE Returned(TRUE, "Created folder", made.fs)

\* faulty variant: the content of the file is emptied and the file is kept
delete_file_truncates(action, fs, fault) ==
    IF ~exists(fs, action.target_path) THEN Returned(FALSE, "File not found", fs)
    ELSE IF ~is_file(fs, action.target_path) THEN Returned(FALSE, "Not a file", fs)
    ELSE LET removed == call(fault, "remove_file", fs, write(fs, action.target_path, ""))
         IN  IF ~removed.ok THEN Returned(FALSE, "Failed to delete file", removed.fs)
             ELSE Returned(TRUE, "Deleted file", removed.fs)

\* filesystem.rs:104-117
delete_file(action, fs, fault) ==
    IF ~exists(fs, action.target_path) THEN Returned(FALSE, "File not found", fs)
    ELSE IF ~is_file(fs, action.target_path) THEN Returned(FALSE, "Not a file", fs)
    ELSE LET removed == call(fault, "remove_file", fs, remove_file(fs, action.target_path))
         IN  IF ~removed.ok THEN Returned(FALSE, "Failed to delete file", removed.fs)
             ELSE Returned(TRUE, "Deleted file", removed.fs)

\* faulty variant: the type of the target is not checked, a plain file is removed
delete_folder_any(action, fs, fault) ==
    IF ~exists(fs, action.target_path) THEN Returned(FALSE, "Folder not found", fs)
    ELSE LET removed == call(fault, "remove_dir_all", fs,
                             IF is_dir(fs, action.target_path)
                             THEN remove_dir_all(fs, action.target_path)
                             ELSE remove_file(fs, action.target_path))
         IN  IF ~removed.ok THEN Returned(FALSE, "Failed to delete folder", removed.fs)
             ELSE Returned(TRUE, "Deleted folder", removed.fs)

\* filesystem.rs:119-132
delete_folder(action, fs, fault) ==
    IF ~exists(fs, action.target_path) THEN Returned(FALSE, "Folder not found", fs)
    ELSE IF ~is_dir(fs, action.target_path) THEN Returned(FALSE, "Not a folder", fs)
    ELSE LET removed == call(fault, "remove_dir_all", fs,
                             remove_dir_all(fs, action.target_path))
         IN  IF ~removed.ok THEN Returned(FALSE, "Failed to delete folder", removed.fs)
             ELSE Returned(TRUE, "Deleted folder", removed.fs)

\* filesystem.rs:134-150
move_file(action, fs, fault) ==
    LET dest == action.destination_path
    IN  IF ~dest.some
        THEN Returned(FALSE, "Destination path required for move operation", fs)
        ELSE IF ~exists(fs, action.target_path)
        THEN Returned(FALSE, "Source file not found", fs)
        ELSE LET renamed == call(fault, "rename", fs,
                                 rename(fs, action.target_path, dest.value))
             IN  IF ~renamed.ok THEN Returned(FALSE, "Failed to move file", renamed.fs)
                 ELSE Returned(TRUE, "Moved", renamed.fs)

\* filesystem.rs:152-168
copy_file(action, fs, fault) ==
    LET dest == action.destination_path
    IN  IF ~dest.some
        THEN Returned(FALSE, "Destination path required for copy operation", fs)
        ELSE IF ~exists(fs, action.target_path)
        THEN Returned(FALSE, "Source file not found", fs)
        ELSE LET copied == call(fault, "copy", fs,
                                copy(fs, action.target_path, dest.value))
             IN  IF ~copied.ok THEN Returned(FALSE, "Failed to copy file", copied.fs)
                 ELSE Returned(TRUE, "Copied", copied.fs)

\* filesystem.rs:71-80  (execute of FileSystemAction)
action_execute(action, fs, fault) ==
    CASE action.action_type = "CreateFile" -> create_file(action, fs, fault)
      [] action.action_type = "CreateFolder" -> create_folder(action, fs, fault)
      [] action.action_type = "DeleteFile" -> delete_file(action, fs, fault)
      [] action.action_type = "DeleteFolder" -> delete_folder(action, fs, fault)
      [] action.action_type = "MoveFile" -> move_file(action, fs, fault)
      [] action.action_type = "CopyFile" -> copy_file(action, fs, fault)


(* The inputs of the actions *)

\* a file system before any action: the user's two files both exist or both
\* do not, and every file holds some earlier content
Disks(platform) ==
    { [platform |-> platform, dirs |-> fs.dirs, files |-> fs.files, links |-> fs.links,
       content |-> [f \in fs.files |-> "old"], calls |-> 0] :
          fs \in { f \in FileSystems(platform) :
                       UserFiles(platform) \cap f.files \in {{}, UserFiles(platform)} } }

\* target paths: a file of the user's Documents, a file whose parent directory
\* is missing, a directory, a link to a system directory, a system file and a
\* bare file name
ActionTargets(platform) ==
    IF platform = "windows"
    THEN { <<DISK_C, N_Users, N_u, N_Documents, N_report_txt>>,
           <<DISK_C, N_Users, N_u, N_Documents, N_nodir, N_new_txt>>,
           <<DISK_C, N_Users, N_u, N_Documents>>,
           <<DISK_C, N_Windows, N_System32, N_kernel32_dll>>,
           <<N_new_txt>> }
    ELSE { <<ROOT_DIR, N_home, N_u, N_Documents, N_report_txt>>,
           <<ROOT_DIR, N_home, N_u, N_Documents, N_nodir, N_new_txt>>,
           <<ROOT_DIR, N_home, N_u, N_Documents>>,
           <<ROOT_DIR, N_home, N_u, N_Documents, N_link>>,
           <<ROOT_DIR, N_etc, N_passwd>>,
           <<N_new_txt>> }

\* destination paths of a move or copy: one that is classified Blocked and
\* one in the user's Documents
Destinations(platform) ==
    IF platform = "windows"
    THEN { <<DISK_C, N_nodir, N_new_txt>>,
           <<DISK_C, N_Users, N_u, N_Documents, N_setup_EXE>> }
    ELSE { <<ROOT_DIR, N_etc, N_new_txt>>,
           <<ROOT_DIR, N_home, N_u, N_Documents, N_setup_EXE>> }

\* filesystem.rs:190  the content of the test, or none
Contents == {None, Some("Test content")}

\* the actions a caller builds with new, with_destination and with_content
Actions(platform) ==
    { FileSystemAction("CreateFile", t, None, c) : t \in ActionTargets(platform), c \in Contents }
    \cup { FileSystemAction(a, t, None, None) :
               a \in {"CreateFolder", "DeleteFile", "DeleteFolder"}, t \in ActionTargets(platform) }
    \cup { FileSystemAction(a, t, d, None) :
               a \in {"MoveFile", "CopyFile"}, t \in ActionTargets(platform),
               d \in {None} \cup {Some(p) : p \in Destinations(platform)} }

\* the call of std::fs an action can see fail for an outside reason
FaultsOf(action) ==
    {"none"} \cup
    CASE action.action_type = "CreateFile" -> {"create_dir_all", "write"}
      [] action.action_type = "CreateFolder" -> {"create_dir_all"}
      [] action.action_type = "DeleteFile" -> {"remove_file"}
      [] action.action_type = "DeleteFolder" -> {"remove_dir_all"}
      [] action.action_type = "MoveFile" -> {"rename"}
      [] action.action_type = "CopyFile" -> {"copy"}

FileFrame ==
    UNCHANGED <<PENDING, KILL_HISTORY, IS_UI_ACTIVE, nextId, clock, alive, poisoned,
                last, executedFor, cancelSeen, killTimes, serverVars, burst, handlers, intake, threads>>

\* the program starts on a machine: platform and file system are given
Mount(platform, fs) ==
    /\ disk = NoDisk
    /\ disk' = fs
    /\ UNCHANGED query
    /\ FileFrame

\* filesystem.rs:45  action.validate(&validator) is called and returns
Validate(home, action) ==
    /\ disk # NoDisk
    /\ query' = [fn |-> "validate", validator |-> SafetyValidator(disk.platform, home),
                 action |-> action,
                 result |-> validate(action, SafetyValidator(disk.platform, home), disk)]
    /\ UNCHANGED disk
    /\ FileFrame

\* filesystem.rs:71  action.execute() is called and returns
Execute(action, fault) ==
    /\ disk # NoDisk
    /\ disk.calls < MaxActions
    /\ LET returned == action_execute(action, disk, fault)
       IN  /\ disk' = [returned.fs EXCEPT !.calls = @ + 1]
           /\ query' = [fn |-> "execute", action |-> action,
                        result |-> [ok |-> returned.ok, message |-> returned.message]]
    /\ FileFrame

NextValidate ==
    \/ \E platform \in Platforms : \E fs \in Disks(platform) : Mount(platform, fs)
    \/ \E home \in Homes(disk.platform), action \in Actions(disk.platform) :
          Validate(home, action)

\* actions are validated on a file system that stays as it is
SpecValidate == Init /\ [][NextValidate]_vars

NextFileAction ==
    \/ \E platform \in Platforms : \E fs \in Disks(platform) : Mount(platform, fs)
    \/ \E action \in Actions(disk.platform) : \E fault \in FaultsOf(action) :
          Execute(action, fault)

\* actions are executed one after the other
SpecFileAction == Init /\ [][NextFileAction]_vars

----------------------------------------------------------------------------
(* The claims about FileSystemAction, checked under SpecValidate and
   SpecFileAction *)

\* the validator of the call under study classifies path Blocked
IsBlocked(path) == check_path(query.validator, disk, path) = "Blocked"

\* C29: validate returns an error exactly when the target path or, if present,
\* the destination path is classified Blocked; the target is checked first, and
\* the error names the first Blocked path in that order (the target when both
\* are Blocked).
C29_ValidateRejectsBlocked ==
    query.fn = "validate" =>
        LET target == query.action.target_path
            dest == query.action.destination_path
            target_blocked == IsBlocked(target)
            dest_blocked == dest.some /\ IsBlocked(dest.value)
        IN  /\ ~query.result.ok <=> (target_blocked \/ dest_blocked)
            /\ ~query.result.ok =>
                  /\ query.result.error.message = "Operation blocked"
                  /\ query.result.error.path = IF target_blocked THEN target ELSE dest.value

\* validate has rejected an action whose target and destination are both
\* Blocked, naming the target
C29_Witness ==
    /\ query.fn = "validate"
    /\ query.action.destination_path.some
    /\ IsBlocked(query.action.target_path)
    /\ IsBlocked(query.action.destination_path.value)
    /\ query.action.destination_path.value # query.action.target_path
    /\ ~query.result.ok
    /\ query.result.error.path = query.action.target_path

\* this step is a call of execute that returned Ok for an action of the type
Succeeded(type) ==
    /\ disk'.calls = disk.calls + 1
    /\ query'.fn = "execute"
    /\ query'.action.action_type = type
    /\ query'.result.ok

C30_Step ==
    LET target == query'.action.target_path
        dir == parent(target)
        supplied == query'.action.content
    IN  /\ Succeeded("CreateFile") =>
              /\ exists(disk', target)
              /\ is_file(disk', target)
              /\ ~is_dir(disk', target)
              /\ dir.some /\ dir.value # << >> => is_dir(disk', dir.value)
              /\ disk'.content[node_of(disk', target).value] =
                     (IF supplied.some THEN supplied.value ELSE "")
        /\ Succeeded("DeleteFile") =>
              /\ is_file(disk, target)
              /\ ~exists(disk', target)

\* C30: after a successful CreateFile execute the target exists as a plain
\* file (missing parent directories having been created first, content empty
\* when none was supplied), and after a subsequent successful DeleteFile
\* execute on the same path the file no longer exists.
C30_CreateThenDelete == [][C30_Step]_vars

\* DeleteFile has succeeded on a file that CreateFile had created, together
\* with its missing parent directory, without content
C30_Witness ==
    /\ query.fn = "execute"
    /\ query.action.action_type = "DeleteFile"
    /\ query.action.target_path[Len(query.action.target_path)] = N_new_txt
    /\ Len(query.action.target_path) > 2
    /\ query.action.target_path[Len(query.action.target_path) - 1] = N_nodir
    /\ query.result.ok
    /\ disk.calls = 2
    /\ is_dir(disk, parent(query.action.target_path).value)
    /\ ~exists(disk, query.action.target_path)

\* the precondition of the operation fails on the file system fs
\* (filesystem.rs:105-111, 120-126, 135-140, 153-158)
PreconditionFails(action, fs) ==
    CASE action.action_type = "DeleteFile" -> ~exists(fs, action.target_path)
                                               \/ ~is_file(fs, action.target_path)
      [] action.action_type = "DeleteFolder" -> ~exists(fs, action.target_path)
                                                 \/ ~is_dir(fs, action.target_path)
      [] action.action_type \in {"MoveFile", "CopyFile"} ->
             ~action.destination_path.some \/ ~exists(fs, action.target_path)
      [] OTHER -> FALSE

\* this step is a call of execute that returned
Executes == disk'.calls = disk.calls + 1 /\ query'.fn = "execute"

C31_Step ==
    Executes /\ PreconditionFails(query'.action, disk) =>
        /\ ~query'.result.ok
        /\ query'.result.message \in
               {"File not found", "Not a file", "Folder not found", "Not a folder",
                "Destination path required for move operation",
                "Destination path required for copy operation", "Source file not found"}
        /\ disk' = [disk EXCEPT !.calls = @ + 1]

\* C31: execute returns an error value, and leaves the file system as it was,
\* when its precondition fails: DeleteFile on a missing path or a non-file,
\* DeleteFolder on a missing path or a non-directory, MoveFile or CopyFile with
\* no destination set or with a missing source.
C31_PreconditionFailureIsAnError == [][C31_Step]_vars

\* DeleteFolder has returned "Not a folder" for a path that is a plain file,
\* after an earlier action that succeeded, and the file is still there
C31_Witness ==
    /\ query.fn = "execute"
    /\ query.action.action_type = "DeleteFolder"
    /\ is_file(disk, query.action.target_path)
    /\ ~query.result.ok
    /\ query.result.message = "Not a folder"
    /\ disk.calls = 2

----------------------------------------------------------------------------
(* More claims about the execution engine, checked under SpecEngine *)

\* the errors of the two guards of a KillProcess execution
GuardErrors == {"Rate limit exceeded: >3 kills in 10s", "Protected system process"}

\* a step of SpecEngine that leaves the clock alone is one execution of a
\* KillProcess command
C34_Step ==
    clock' = clock =>
        LET recent == retain_recent(KILL_HISTORY, clock)
            issued == last'.kills # << >>
            rejected == last'.sent[1].error \in GuardErrors
        IN  /\ issued <=> ~rejected
            /\ rejected <=> (Len(recent) >= RATE_LIMIT_KILLS
                             \/ (/\ last'.env.process.some
                                 /\ to_lowercase(last'.env.process.value)
                                        \in PROTECTED_PROCESSES))
            /\ issued => KILL_HISTORY' = Append(recent, clock)
            /\ rejected => KILL_HISTORY' = recent

\* C34: a KillProcess execution adds exactly one timestamp to the rate-limit
\* window if and only if the platform kill is issued, whether the kill tool
\* then reports success or failure; an execution rejected by the rate limit or
\* by the protected-process guard adds nothing to the window.
C34_RecordedIffIssued == [][C34_Step]_vars

\* a kill has been issued and recorded as the second entry of the window
\* although taskkill reported a failure
C34_Witness ==
    /\ last.executed # << >>
    /\ last.executed[1].type = "KillProcess"
    /\ last.kills = <<last.executed[1].pid>>
    /\ last.env.tool = "failure"
    /\ Len(KILL_HISTORY) = 2
    /\ KILL_HISTORY[2] = clock
    /\ killTimes[Len(killTimes)] = clock

----------------------------------------------------------------------------
(* More claims about FileSystemAction, checked under SpecFileAction and
   SpecValidate *)

\* the file system without the count of calls
Content(fs) == [dirs |-> fs.dirs, files |-> fs.files, links |-> fs.links,
                content |-> fs.content]

\* some validator of the platform classifies the target or the destination of
\* the action Blocked on the file system fs
TouchesBlocked(action, fs) ==
    \E home \in Homes(fs.platform) :
        LET validator == SafetyValidator(fs.platform, home)
        IN  \/ check_path(validator, fs, action.target_path) = "Blocked"
            \/ /\ action.destination_path.some
               /\ check_path(validator, fs, action.destination_path.value) = "Blocked"

C35_Step ==
    Executes /\ TouchesBlocked(query'.action, disk) => Content(disk') = Content(disk)

\* C35: execute never mutates a path that the Safety Validator classifies
\* Blocked: for an action whose target or destination is Blocked, execute
\* performs no create, delete, move or copy, whether or not the caller invoked
\* validate first.
C35_BlockedPathIsNeverMutated == [][C35_Step]_vars

\* C40: when validate succeeds, the level it returns is the safety level of the
\* target path alone; a destination classified NeedsConfirmation does not
\* raise the result.
C40_LevelIsTargetLevel ==
    query.fn = "validate" /\ query.result.ok =>
        query.result.value = check_path(query.validator, disk, query.action.target_path)

\* validate has returned Safe for a move or copy whose destination is
\* classified NeedsConfirmation
C40_Witness ==
    /\ query.fn = "validate"
    /\ query.action.action_type \in {"MoveFile", "CopyFile"}
    /\ query.action.destination_path.some
    /\ check_path(query.validator, disk, query.action.destination_path.value)
           = "NeedsConfirmation"
    /\ query.result.ok
    /\ query.result.value = "Safe"

----------------------------------------------------------------------------
(* The content of the pending registry, checked under Spec *)

\* evaluate returns RequireConfirmation for the command
NeedsConfirm(cmd) ==
    /\ evaluate(cmd) # {}
    /\ \A d \in evaluate(cmd) : d.decision = "RequireConfirmation"

C37_Content ==
    \A id \in DOMAIN PENDING :
        /\ PENDING[id].type \notin {"Confirm", "Cancel", "SetUiActive"}
        /\ NeedsConfirm(PENDING[id])

C37_Step ==
    \A id \in DOMAIN PENDING :
        IF id \in DOMAIN PENDING'
        THEN PENDING'[id] = PENDING[id]
        ELSE last'.line \in {Confirm(id), Cancel(id)}

\* C37: in every reachable state each command stored in the pending registry
\* is one for which evaluate returns RequireConfirmation (the registry never
\* holds Confirm, Cancel, SetUiActive, an Allowed or a Denied command), and an
\* entry leaves the registry only through a Confirm or Cancel carrying its id.
C37_RegistryHoldsOnlyConfirmable == []C37_Content /\ [][C37_Step]_vars

\* one entry has just left through a Cancel carrying its id while another
\* entry, a KillProcess registered after Allowed and Denied commands were
\* handled, is still waiting
C37_Witness ==
    /\ last.line.type = "Cancel"
    /\ last.line.command_id \in cancelSeen
    /\ last.line.command_id \notin DOMAIN PENDING
    /\ \E id \in DOMAIN PENDING : PENDING[id].type = "KillProcess"

----------------------------------------------------------------------------
(* The batch of NormalizeSystem, checked under Spec *)

\* the scripts of the batch in the order of receiver.rs:336-374
BatchOrder == <<"av_script", "cleanup_script", "/flushdns", "opt_script", "browser_script">>

\* C36: in NormalizeSystem every sub-operation of the batch is attempted
\* exactly once and in the fixed order, whatever the outcome of the
\* sub-operations before it; a failing sub-operation never prevents the later
\* ones from running nor the final execution_result from being broadcast.
C36_BatchRunsToTheEnd ==
    (last.executed # << >> /\ last.executed[1].type = "NormalizeSystem") =>
        /\ ~last.panicked
        /\ [i \in DOMAIN last.effects |-> last.effects[i].script] = BatchOrder
        /\ Len(last.sent) = 1
        /\ last.sent[1].type = "execution_result"
        /\ last.sent[1].command = "NormalizeSystem"

\* the batch has run to its end and the result was broadcast although its
\* first sub-operation could not be spawned
C36_Witness ==
    /\ last.executed # << >>
    /\ last.executed[1].type = "NormalizeSystem"
    /\ last.env.steps[1] = "spawn_error"
    /\ last.env.steps[2] = "success"
    /\ Len(last.effects) = 5
    /\ last.effects[5].script = "browser_script"
    /\ Len(last.sent) = 1

----------------------------------------------------------------------------
(* ipc/receiver.rs: handle_command run by several threads at once, each for a
   KillProcess line and the Confirm that names it.  One action per statement
   that touches PENDING, KILL_HISTORY or the clock.  No subscriber is
   connected, so the broadcasts write to no stream. *)

MaxKillers == 2
MaxKills == 4

Killers == 1..MaxKillers

\* the clock readings at which an execution begins: the start, and the instant
\* at which the entries of the start leave the window
KillArrivals == {0, RATE_WINDOW_SECS}

\* the command every thread executes: the first pid the policy does not reserve
RaceKill == KillProcess(RESERVED_PID_LIMIT)

\* a thread inside handle_command: the statement it is at, the reading of
\* Instant::now() it took and its status variable
Killer(pc, now, status) == [pc |-> pc, now |-> now, status |-> status]

\* receiver.rs:97-153  the guard `history` lives from the lock() to the end of
\* the block
HoldsHistory(t) == threads[t].pc \in {"issue", "broadcast"}

KillFrame ==
    UNCHANGED <<IS_UI_ACTIVE, nextId, alive, poisoned, last, executedFor,
                cancelSeen, serverVars, query, burst, handlers, disk, intake>>

\* receiver.rs:42-45  the guard of `PENDING.lock().unwrap().remove(..)` is a
\* temporary of the if-let scrutinee: it lives to the end of the if-let, across
\* execute
HoldsRegistry(t) == threads[t].pc \in {"lock", "issue", "broadcast"}

\* receiver.rs:56-75  the KillProcess line: the policy requires confirmation,
\* the command is inserted under an identifier of its own (the guard of this
\* lock() is dropped at the end of the statement) and the registration is
\* broadcast; the Confirm line that names it is read next
KillArrive(t) ==
    /\ t \notin DOMAIN threads
    /\ clock \in KillArrivals
    /\ Len(killTimes) + Cardinality(DOMAIN threads) < MaxKills
    /\ \E d \in evaluate(RaceKill) : d.decision = "RequireConfirmation"
    /\ \A u \in DOMAIN threads : ~HoldsRegistry(u)
    /\ PENDING' = insert(PENDING, t, RaceKill)
    /\ threads' = insert(threads, t, Killer("take", clock, "success"))
    /\ UNCHANGED <<KILL_HISTORY, killTimes, clock>>
    /\ KillFrame

\* faulty variant: execute is entered without the registry guard, as it is on
\* the Allow path (receiver.rs:57)
KillEnter_without_guard(t) ==
    /\ t \in DOMAIN threads
    /\ threads[t].pc = "take"
    /\ t \in DOMAIN PENDING
    /\ PENDING' = remove(PENDING, t)
    /\ threads' = [threads EXCEPT ![t].pc = "lock", ![t].now = clock]
    /\ UNCHANGED <<KILL_HISTORY, killTimes, clock>>
    /\ KillFrame

\* receiver.rs:41-43, 92-96  Confirm: PENDING.lock() returns when no thread
\* holds the guard, the entry is removed and execute begins: status =
\* "success"; now = Instant::now()
KillEnter(t) ==
    /\ t \in DOMAIN threads
    /\ threads[t].pc = "take"
    /\ \A u \in DOMAIN threads : ~HoldsRegistry(u)
    /\ t \in DOMAIN PENDING
    /\ PENDING' = remove(PENDING, t)
    /\ threads' = [threads EXCEPT ![t].pc = "lock", ![t].now = clock]
    /\ UNCHANGED <<KILL_HISTORY, killTimes, clock>>
    /\ KillFrame

\* receiver.rs:97-117  KILL_HISTORY.lock() returns when no thread holds the
\* guard; retain, the count check and the protected-process check follow
KillAdmit(t) ==
    /\ t \in DOMAIN threads
    /\ threads[t].pc = "lock"
    /\ \A u \in DOMAIN threads : ~HoldsHistory(u)
    /\ \E env \in EnvFor(RaceKill) :
          LET recent == retain_recent(KILL_HISTORY, threads[t].now)
              refused == rate_limited(recent) \/ is_protected(env.process)
          IN  /\ KILL_HISTORY' = recent
              /\ threads' = [threads EXCEPT
                                ![t].status = IF refused THEN "error" ELSE "success",
                                ![t].pc = IF refused THEN "broadcast" ELSE "issue"]
    /\ UNCHANGED <<PENDING, killTimes, clock>>
    /\ KillFrame

\* receiver.rs:121-140  history.push(now) and taskkill
KillIssue(t) ==
    /\ t \in DOMAIN threads
    /\ threads[t].pc = "issue"
    /\ KILL_HISTORY' = Append(KILL_HISTORY, threads[t].now)
    /\ killTimes' = Append(killTimes, clock)
    /\ threads' = [threads EXCEPT ![t].pc = "broadcast"]
    /\ UNCHANGED <<PENDING, clock>>
    /\ KillFrame

\* receiver.rs:142-153, 45  the result is broadcast, the block ends and the
\* guard `history` is dropped; execute returns and the registry guard is dropped
KillFinish(t) ==
    /\ t \in DOMAIN threads
    /\ threads[t].pc = "broadcast"
    /\ threads' = remove(threads, t)
    /\ UNCHANGED <<PENDING, KILL_HISTORY, killTimes, clock>>
    /\ KillFrame

\* time passes only while every running thread is in taskkill or the broadcast
\* (receiver.rs:125, 142) or waits for a guard another thread holds
\* (receiver.rs:42, 97); the statements in between take no time
KillTick ==
    /\ \A t \in DOMAIN threads :
          \/ threads[t].pc = "broadcast"
          \/ threads[t].pc = "take" /\ \E u \in DOMAIN threads : HoldsRegistry(u)
          \/ threads[t].pc = "lock" /\ \E u \in DOMAIN threads : HoldsHistory(u)
    /\ Tick
    /\ UNCHANGED <<PENDING, threads>>

NextKillRace ==
    \/ \E t \in Killers : KillArrive(t)
    \/ \E t \in Killers : KillEnter(t)
    \/ \E t \in Killers : KillAdmit(t)
    \/ \E t \in Killers : KillIssue(t)
    \/ \E t \in Killers : KillFinish(t)
    \/ KillTick

SpecKillRace == Init /\ [][NextKillRace]_vars

----------------------------------------------------------------------------
(* The claim about concurrent KillProcess executions, checked under
   SpecKillRace *)

\* the threads between lock() and the end of the block
InCriticalSection == {t \in DOMAIN threads : threads[t].pc \in {"issue", "broadcast"}}

\* the threads that passed the count check and have not recorded their attempt
Admitted == {t \in DOMAIN threads : threads[t].pc = "issue"}

C33_OneAtATime == Cardinality(InCriticalSection) <= 1 /\ Cardinality(Admitted) <= 1

C33_WindowSize == Len(KILL_HISTORY) <= RATE_LIMIT_KILLS

C33_KillsPerWindow == \A t \in 0..MaxTime : KillsIn(t) <= RATE_LIMIT_KILLS

\* C33: the admission check, the protected-process check and the recording of
\* the attempt form one critical section: when several KillProcess executions
\* run concurrently, no two of them pass the count check before either has
\* recorded its attempt, so the window never holds more than 3 entries and
\* never more than 3 kills are issued per 10 seconds.
C33_CriticalSection == C33_OneAtATime /\ C33_WindowSize /\ C33_KillsPerWindow

\* one execution has recorded the third attempt of the window and still holds
\* both guards, and another thread has waited with its confirmation since an
\* earlier instant
C33_Witness ==
    /\ Len(KILL_HISTORY) = RATE_LIMIT_KILLS
    /\ \E t, u \in DOMAIN threads :
          /\ threads[t].pc = "broadcast"
          /\ threads[t].status = "success"
          /\ threads[u].pc = "take"
          /\ threads[u].now < clock

----------------------------------------------------------------------------
(* The three threads of the process (main.rs:367-368, 391): the command intake
   (receiver.rs:20), the subscriber accept loop (server.rs:22) and the
   telemetry loop of main, with the four locks they take.  One action per
   statement that takes or drops a lock, reads or writes the UI-active flag,
   or writes to a stream. *)

MaxStreams == 2
MaxMessages == 2

\* receiver.rs:14, 36; server.rs:9, 12  the mutexes of the process
Locks == {"PENDING", "KILL_HISTORY", "GLOBAL_IPC", "clients"}

\* a thread: the statement it is at, the locks it holds in the order it took
\* them, the command it handles, the number of the message it broadcasts and
\* the streams retain_mut has still to visit
Worker(pc, held, cmd, msg, todo) ==
    [pc |-> pc, held |-> held, cmd |-> cmd, msg |-> msg, todo |-> todo]

\* a thread at the head of its loop
Idle(pc) == Worker(pc, << >>, NoLine, 0, << >>)

\* Mutex::lock returns when no thread holds the lock (a thread that holds it
\* itself waits for ever)
Free(lock) ==
    \A t \in DOMAIN threads : \A i \in DOMAIN threads[t].held : threads[t].held[i] # lock

\* the lines the intake reads: the flag, a command that needs confirmation, its
\* confirmation and a command that is allowed
ServerLines ==
    {SetUiActive(b) : b \in BOOLEAN}
    \cup {KillProcess(RESERVED_PID_LIMIT), NormalizeSystem}
    \cup {Confirm(id) : id \in IdUniverse}

ServerFrame ==
    UNCHANGED <<clock, alive, poisoned, last, executedFor, cancelSeen, killTimes,
                query, burst, handlers, disk, intake>>

\* main.rs:367-368, 391  IpcServer::start spawns the accept loop and sets
\* GLOBAL_IPC, start_command_server spawns the intake, main enters its loop
Start ==
    /\ threads = NoThreads
    /\ threads' = [t \in {"intake", "accept", "telemetry"} |->
                      Idle(CASE t = "intake" -> "read"
                             [] t = "accept" -> "incoming"
                             [] t = "telemetry" -> "load")]
    /\ UNCHANGED <<PENDING, KILL_HISTORY, IS_UI_ACTIVE, nextId, serverVars>>
    /\ ServerFrame

\* the thread is at pc
At(t, pc) == threads # NoThreads /\ threads[t].pc = pc

\* the head of the loop of a thread
LoopHead(t) ==
    CASE t = "intake" -> "read" [] t = "accept" -> "incoming" [] t = "telemetry" -> "load"

(* server.rs:22-28  the accept loop *)

\* server.rs:23-24  listener.incoming() yields a stream
AcceptStream ==
    /\ At("accept", "incoming")
    /\ Cardinality(DOMAIN wire) < MaxStreams
    /\ LET stream == Cardinality(DOMAIN wire) + 1
       IN  /\ wire' = insert(wire, stream, << >>)
           /\ threads' = [threads EXCEPT !["accept"].pc = "push",
                                         !["accept"].todo = <<stream>>]
    /\ UNCHANGED <<PENDING, KILL_HISTORY, IS_UI_ACTIVE, nextId, clients, bcast>>
    /\ ServerFrame

\* faulty variant: the accept loop announces the new subscriber with
\* broadcast_global while it still holds the subscriber list
AcceptPush_announces ==
    /\ At("accept", "push")
    /\ Free("clients")
    /\ clients' = Append(clients, threads["accept"].todo[1])
    /\ threads' = [threads EXCEPT !["accept"].held = <<"clients">>,
                                  !["accept"].pc = "lock_global"]
    /\ UNCHANGED <<PENDING, KILL_HISTORY, IS_UI_ACTIVE, nextId, wire, bcast>>
    /\ ServerFrame

\* server.rs:25  clients_clone.lock().unwrap().push(stream)
AcceptPush ==
    /\ At("accept", "push")
    /\ Free("clients")
    /\ clients' = Append(clients, threads["accept"].todo[1])
    /\ threads' = [threads EXCEPT !["accept"] = Idle("incoming")]
    /\ UNCHANGED <<PENDING, KILL_HISTORY, IS_UI_ACTIVE, nextId, wire, bcast>>
    /\ ServerFrame

(* server.rs:35-48  broadcast and broadcast_global, called by the telemetry
   loop and by the intake *)

\* server.rs:45  GLOBAL_IPC.lock(): the guard lives until the if-let ends
LockGlobal(t) ==
    /\ At(t, "lock_global")
    /\ Free("GLOBAL_IPC")
    /\ threads' = [threads EXCEPT ![t].held = Append(@, "GLOBAL_IPC"),
                                  ![t].pc = "lock_clients"]
    /\ UNCHANGED <<PENDING, KILL_HISTORY, IS_UI_ACTIVE, nextId, serverVars>>
    /\ ServerFrame

\* faulty variant: broadcast works on the list without waiting for its lock
LockClients_without_waiting(t) ==
    /\ At(t, "lock_clients")
    /\ threads' = [threads EXCEPT ![t].held = Append(@, "clients"),
                                  ![t].todo = clients,
                                  ![t].pc = IF clients = << >> THEN "unlock" ELSE "write_json"]
    /\ UNCHANGED <<PENDING, KILL_HISTORY, IS_UI_ACTIVE, nextId, serverVars>>
    /\ ServerFrame

\* server.rs:37  self.clients.lock(); retain_mut starts at the first stream
LockClients(t) ==
    /\ At(t, "lock_clients")
    /\ Free("clients")
    /\ threads' = [threads EXCEPT ![t].held = Append(@, "clients"),
                                  ![t].todo = clients,
                                  ![t].pc = IF clients = << >> THEN "unlock" ELSE "write_json"]
    /\ UNCHANGED <<PENDING, KILL_HISTORY, IS_UI_ACTIVE, nextId, serverVars>>
    /\ ServerFrame

\* server.rs:40-41  a stream whose write failed is not retained
dropped(list, stream) == SelectSeq(list, LAMBDA s : s # stream)

\* the statement after the visit of the first stream of todo
after_visit(todo) == IF Len(todo) = 1 THEN "unlock" ELSE "write_json"

\* server.rs:40  stream.write_all(json.as_bytes())
WriteJson(t, ok) ==
    /\ At(t, "write_json")
    /\ LET stream == Head(threads[t].todo)
       IN  IF ok
           THEN /\ wire' = [wire EXCEPT ![stream] = Append(@, Json(threads[t].msg))]
                /\ threads' = [threads EXCEPT ![t].pc = "write_newline"]
                /\ UNCHANGED clients
           ELSE /\ clients' = dropped(clients, stream)
                /\ threads' = [threads EXCEPT ![t].todo = Tail(@),
                                              ![t].pc = after_visit(threads[t].todo)]
                /\ UNCHANGED wire
    /\ UNCHANGED <<PENDING, KILL_HISTORY, IS_UI_ACTIVE, nextId, bcast>>
    /\ ServerFrame

\* server.rs:40  stream.write_all(b"\n")
WriteNewline(t, ok) ==
    /\ At(t, "write_newline")
    /\ LET stream == Head(threads[t].todo)
       IN  /\ IF ok
              THEN /\ wire' = [wire EXCEPT ![stream] = Append(@, Newline(threads[t].msg))]
                   /\ UNCHANGED clients
              ELSE /\ clients' = dropped(clients, stream)
                   /\ UNCHANGED wire
           /\ threads' = [threads EXCEPT ![t].todo = Tail(@),
                                         ![t].pc = after_visit(threads[t].todo)]
    /\ UNCHANGED <<PENDING, KILL_HISTORY, IS_UI_ACTIVE, nextId, bcast>>
    /\ ServerFrame

\* server.rs:42, 47; receiver.rs:45, 153  a scope ends and the guard taken
\* last is dropped; with the last guard the thread is back at the head of its
\* loop
Unlock(t) ==
    /\ At(t, "unlock")
    /\ LET held == threads[t].held
       IN  threads' = [threads EXCEPT ![t] =
                          IF Len(held) <= 1 THEN Idle(LoopHead(t))
                          ELSE [@ EXCEPT !.held = SubSeq(held, 1, Len(held) - 1)]]
    /\ UNCHANGED <<PENDING, KILL_HISTORY, IS_UI_ACTIVE, nextId, serverVars>>
    /\ ServerFrame

(* main.rs:391-478  the telemetry loop *)

\* faulty variant: the sample is taken and broadcast whatever the flag says
TelemetryLoad_ungated ==
    /\ At("telemetry", "load")
    /\ bcast.n < MaxMessages
    /\ bcast' = [bcast EXCEPT !.n = @ + 1]
    /\ threads' = [threads EXCEPT !["telemetry"].msg = bcast.n + 1,
                                  !["telemetry"].pc = "lock_clients"]
    /\ UNCHANGED <<PENDING, KILL_HISTORY, IS_UI_ACTIVE, nextId, clients, wire>>
    /\ ServerFrame

\* main.rs:392-474  the flag is read; when it is true the sample is taken and
\* ipc.broadcast is called (when it is false the iteration only sleeps)
TelemetryLoad ==
    /\ At("telemetry", "load")
    /\ IS_UI_ACTIVE
    /\ bcast.n < MaxMessages
    /\ bcast' = [bcast EXCEPT !.n = @ + 1]
    /\ threads' = [threads EXCEPT !["telemetry"].msg = bcast.n + 1,
                                  !["telemetry"].pc = "lock_clients"]
    /\ UNCHANGED <<PENDING, KILL_HISTORY, IS_UI_ACTIVE, nextId, clients, wire>>
    /\ ServerFrame

(* receiver.rs:20-82  the intake thread *)

\* receiver.rs:51-54  SetUiActive: the flag is stored
IntakeSetUiActive(cmd) ==
    /\ At("intake", "read")
    /\ cmd.type = "SetUiActive"
    /\ IS_UI_ACTIVE' = cmd.active
    /\ threads' = [threads EXCEPT !["intake"].cmd = cmd]
    /\ UNCHANGED <<PENDING, KILL_HISTORY, nextId, serverVars>>
    /\ ServerFrame

\* receiver.rs:56-61  a command that needs confirmation: an identifier is
\* generated and the message that will announce it is numbered
IntakeRegister(cmd) ==
    /\ At("intake", "read")
    /\ cmd.type \notin {"Confirm", "Cancel", "SetUiActive"}
    /\ \E d \in evaluate(cmd) : d.decision = "RequireConfirmation"
    /\ nextId < MaxIds
    /\ bcast.n < MaxMessages
    /\ bcast' = [bcast EXCEPT !.n = @ + 1]
    /\ threads' = [threads EXCEPT !["intake"].cmd = cmd,
                                  !["intake"].msg = bcast.n + 1,
                                  !["intake"].pc = "insert"]
    /\ UNCHANGED <<PENDING, KILL_HISTORY, IS_UI_ACTIVE, nextId, clients, wire>>
    /\ ServerFrame

\* receiver.rs:61  PENDING.lock().unwrap().insert(id, other): the guard is
\* dropped with the statement; broadcast_global follows (receiver.rs:71)
IntakeInsert ==
    /\ At("intake", "insert")
    /\ Free("PENDING")
    /\ nextId' = nextId + 1
    /\ PENDING' = insert(PENDING, nextId + 1, threads["intake"].cmd)
    /\ threads' = [threads EXCEPT !["intake"].pc = "lock_global"]
    /\ UNCHANGED <<KILL_HISTORY, IS_UI_ACTIVE, serverVars>>
    /\ ServerFrame

\* receiver.rs:57, 330-384  an allowed command is executed; NormalizeSystem
\* ends with broadcast_global
IntakeAllow(cmd) ==
    /\ At("intake", "read")
    /\ cmd.type = "NormalizeSystem"
    /\ Allow \in evaluate(cmd)
    /\ bcast.n < MaxMessages
    /\ bcast' = [bcast EXCEPT !.n = @ + 1]
    /\ threads' = [threads EXCEPT !["intake"].cmd = cmd,
                                  !["intake"].msg = bcast.n + 1,
                                  !["intake"].pc = "lock_global"]
    /\ UNCHANGED <<PENDING, KILL_HISTORY, IS_UI_ACTIVE, nextId, clients, wire>>
    /\ ServerFrame

\* receiver.rs:41  Confirm is read
IntakeConfirm(cmd) ==
    /\ At("intake", "read")
    /\ cmd.type = "Confirm"
    /\ cmd.command_id \in DOMAIN PENDING => bcast.n < MaxMessages
    /\ bcast' = IF cmd.command_id \in DOMAIN PENDING
                THEN [bcast EXCEPT !.n = @ + 1] ELSE bcast
    /\ threads' = [threads EXCEPT !["intake"].cmd = cmd,
                                  !["intake"].msg = IF cmd.command_id \in DOMAIN PENDING
                                                    THEN bcast.n + 1 ELSE 0,
                                  !["intake"].pc = "take"]
    /\ UNCHANGED <<PENDING, KILL_HISTORY, IS_UI_ACTIVE, nextId, clients, wire>>
    /\ ServerFrame

\* receiver.rs:42  PENDING.lock().unwrap().remove(&command_id): with Some the
\* guard lives until the if-let ends, after execute; with None it is dropped
IntakeTake ==
    /\ At("intake", "take")
    /\ Free("PENDING")
    /\ LET id == threads["intake"].cmd.command_id
       IN  IF id \in DOMAIN PENDING
           THEN /\ PENDING' = remove(PENDING, id)
                /\ threads' = [threads EXCEPT !["intake"].held = Append(@, "PENDING"),
                                              !["intake"].cmd = PENDING[id],
                                              !["intake"].pc = "lock_history"]
           ELSE /\ threads' = [threads EXCEPT !["intake"] = Idle("read")]
                /\ UNCHANGED PENDING
    /\ UNCHANGED <<KILL_HISTORY, IS_UI_ACTIVE, nextId, serverVars>>
    /\ ServerFrame

\* receiver.rs:96-141  execute(KillProcess): KILL_HISTORY.lock(), the checks,
\* the push and taskkill; the guard lives until the block ends, after
\* broadcast_global (receiver.rs:142)
IntakeKill ==
    /\ At("intake", "lock_history")
    /\ Free("KILL_HISTORY")
    /\ \E env \in UnprotectedEnv(threads["intake"].cmd) :
          KILL_HISTORY' =
              execute_KillProcess(threads["intake"].cmd, KILL_HISTORY, clock, env).history
    /\ threads' = [threads EXCEPT !["intake"].held = Append(@, "KILL_HISTORY"),
                                  !["intake"].pc = "lock_global"]
    /\ UNCHANGED <<PENDING, IS_UI_ACTIVE, nextId, serverVars>>
    /\ ServerFrame

Broadcasters == {"intake", "telemetry"}

NextServer ==
    \/ Start
    \/ AcceptStream
    \/ AcceptPush
    \/ \E t \in Broadcasters : LockGlobal(t)
    \/ \E t \in Broadcasters : LockClients(t)
    \/ \E t \in Broadcasters, ok \in BOOLEAN : WriteJson(t, ok)
    \/ \E t \in Broadcasters, ok \in BOOLEAN : WriteNewline(t, ok)
    \/ \E t \in Broadcasters : Unlock(t)
    \/ TelemetryLoad
    \/ \E cmd \in ServerLines : IntakeSetUiActive(cmd)
    \/ \E cmd \in ServerLines : IntakeRegister(cmd)
    \/ \E cmd \in ServerLines : IntakeAllow(cmd)
    \/ \E cmd \in ServerLines : IntakeConfirm(cmd)
    \/ IntakeTake
    \/ IntakeKill
    \/ IntakeInsert

\* the three threads in every interleaving
SpecServer == Init /\ [][NextServer]_vars

----------------------------------------------------------------------------
(* The claims about the three threads, checked under SpecServer *)

\* the order of the locks: pending registry, rate-limit window, global server
\* handle, subscriber list
Rank(lock) ==
    CASE lock = "PENDING" -> 1
      [] lock = "KILL_HISTORY" -> 2
      [] lock = "GLOBAL_IPC" -> 3
      [] lock = "clients" -> 4

\* the lock the thread is about to take, or "none"
Waits(t) ==
    CASE threads[t].pc \in {"insert", "take"} -> "PENDING"
      [] threads[t].pc = "lock_history" -> "KILL_HISTORY"
      [] threads[t].pc = "lock_global" -> "GLOBAL_IPC"
      [] threads[t].pc \in {"push", "lock_clients"} -> "clients"
      [] OTHER -> "none"

\* the locks the thread holds
Held(t) == {threads[t].held[i] : i \in DOMAIN threads[t].held}

C38_LockOrder ==
    \A t \in DOMAIN threads :
        /\ \A i, j \in DOMAIN threads[t].held :
               i < j => Rank(threads[t].held[i]) < Rank(threads[t].held[j])
        /\ Waits(t) # "none" => \A lock \in Held(t) : Rank(lock) < Rank(Waits(t))

\* no set of threads in which each waits for a lock another one (or itself) holds
C38_NoCycle ==
    \A S \in SUBSET (DOMAIN threads) \ {{}} :
        \E t \in S : Waits(t) = "none" \/ \A u \in S : Waits(t) \notin Held(u)

\* C38: no interleaving of the command-intake thread, the subscriber-accept
\* thread and the telemetry loop deadlocks: the locks are always taken in the
\* order pending registry, rate-limit window, global server handle, subscriber
\* list, and no thread waits for a lock that is earlier in this order while it
\* holds a later one.
C38_NoDeadlock == C38_LockOrder /\ C38_NoCycle

\* the intake, confirming a kill, holds all four locks, taken in this order,
\* and writes to a stream while the accept loop waits for the subscriber list
C38_Witness ==
    /\ threads # NoThreads
    /\ threads["intake"].held = <<"PENDING", "KILL_HISTORY", "GLOBAL_IPC", "clients">>
    /\ threads["intake"].pc = "write_newline"
    /\ threads["accept"].pc = "push"
    /\ IS_UI_ACTIVE

\* the positions of the chunks of message n on the wire of stream s
JsonAt(s, n) == {i \in DOMAIN wire[s] : wire[s][i] = Json(n)}
NewlineAt(s, n) == {i \in DOMAIN wire[s] : wire[s][i] = Newline(n)}

\* the messages stream s has received as a whole
Received(s) == {n \in 1..bcast.n : NewlineAt(s, n) # {}}

\* a thread is between the two writes of message n to stream s
Writing(s, n) ==
    \E t \in DOMAIN threads :
        /\ threads[t].pc = "write_newline"
        /\ threads[t].msg = n
        /\ Head(threads[t].todo) = s

\* every message is on the wire as its JSON followed at once by its newline; a
\* JSON without newline is the last chunk of a stream that is being written
\* to or was dropped after the failed write
C39_CompleteLines ==
    \A s \in DOMAIN wire : \A i \in DOMAIN wire[s] :
        LET chunk == wire[s][i]
        IN  /\ Cardinality(JsonAt(s, chunk.of)) = 1
            /\ Cardinality(NewlineAt(s, chunk.of)) <= 1
            /\ chunk.bytes = "newline" => i > 1 /\ wire[s][i - 1] = Json(chunk.of)
            /\ chunk.bytes = "json" =>
                   IF i < Len(wire[s]) THEN wire[s][i + 1] = Newline(chunk.of)
                   ELSE Writing(s, chunk.of) \/ s \notin Streams(clients)

\* two subscribers that received the same two messages received them in the
\* same order
C39_SameOrder ==
    \A s1, s2 \in DOMAIN wire : \A m, n \in Received(s1) \cap Received(s2) :
        (\A i \in NewlineAt(s1, m), j \in NewlineAt(s1, n) : i < j) =>
            (\A i \in NewlineAt(s2, m), j \in NewlineAt(s2, n) : i < j)

\* a subscriber joins the list only while no broadcast is under way, and a
\* stream is written to only by the thread that holds the list
C39_Step ==
    /\ Len(clients') > Len(clients) =>
           \A t \in Broadcasters : "clients" \notin Held(t) /\ threads[t].todo = << >>
    /\ \A s \in DOMAIN wire :
           wire'[s] # wire[s] =>
               \E t \in DOMAIN threads :
                   /\ "clients" \in Held(t)
                   /\ \A u \in DOMAIN threads \ {t} : "clients" \notin Held(u)

\* C39: broadcasts are serialized by the subscriber-list lock: when the
\* telemetry loop and the command thread broadcast concurrently, each
\* subscriber receives every message as one complete line (JSON followed by a
\* newline) with no bytes of another message interleaved, all subscribers that
\* receive both messages receive them in the same order, and a subscriber
\* accepted during a broadcast receives either the whole message or none of it.
C39_BroadcastsAreSerialized == [](C39_CompleteLines /\ C39_SameOrder) /\ [][C39_Step]_vars

\* the intake has written its whole message to the first subscriber and is
\* about to write it to the second, while the telemetry loop waits with the
\* next message and the accept loop waits with a subscriber to add
C39_Witness ==
    /\ threads # NoThreads
    /\ clients = <<1>>
    /\ threads["intake"].pc = "unlock"
    /\ "clients" \in Held("intake")
    /\ wire[1] = <<Json(threads["intake"].msg), Newline(threads["intake"].msg)>>
    /\ threads["telemetry"].pc = "lock_clients"
    /\ threads["telemetry"].msg # threads["intake"].msg
    /\ threads["accept"].pc = "push"
    /\ wire[2] = << >>

\* both subscribers received both messages, one of the telemetry loop and one
\* of the command thread
C39_BothReceived ==
    /\ DOMAIN wire = {1, 2}
    /\ Received(1) = {1, 2}
    /\ Received(2) = {1, 2}

\* the intake has just handled a SetUiActive line, or handled it last
HandledSetUiActive == threads'["intake"].cmd.type = "SetUiActive"

\* the flag changes only in the step that handles SetUiActive, to the value the
\* command carries; that step registers nothing, takes no lock and returns to
\* the next line; and the telemetry loop leaves the head of its iteration for
\* a broadcast only when the flag it reads there is true
C32_Step ==
    threads # NoThreads =>
        /\ IS_UI_ACTIVE' # IS_UI_ACTIVE =>
               /\ At("intake", "read")
               /\ HandledSetUiActive
               /\ IS_UI_ACTIVE' = threads'["intake"].cmd.active
        /\ At("intake", "read") /\ HandledSetUiActive =>
               /\ PENDING' = PENDING
               /\ nextId' = nextId
               /\ threads'["intake"] = [Idle("read") EXCEPT !.cmd = threads'["intake"].cmd]
               /\ IS_UI_ACTIVE' = threads'["intake"].cmd.active
        /\ At("telemetry", "load") /\ threads'["telemetry"] # threads["telemetry"] =>
               IS_UI_ACTIVE
        /\ \A s \in DOMAIN wire :
               /\ wire'[s] # wire[s]
               /\ "clients" \in Held("telemetry")
               => threads["telemetry"].msg > 0

\* C32: the UI-active flag is false initially and changes only when a
\* SetUiActive command is handled, to the value that command carries;
\* SetUiActive is applied at once without creating a pending entry; and the
\* telemetry loop broadcasts a telemetry message only in iterations in which it
\* reads the flag as true.
C32_FlagGatesTelemetry ==
    /\ ~IS_UI_ACTIVE
    /\ [][C32_Step]_vars

\* the flag was set while a command waited for confirmation, the telemetry loop
\* read it as true and is broadcasting, and the flag has been cleared since
C32_Witness ==
    /\ threads # NoThreads
    /\ threads["intake"].cmd = SetUiActive(FALSE)
    /\ ~IS_UI_ACTIVE
    /\ PENDING # << >>
    /\ threads["telemetry"].pc = "write_newline"
    /\ threads["telemetry"].msg > 0

============================================================================
